---- MODULE Spec2Model ----
(***************************************************************************)
(* Ocean-current engine of ExoClim: computeOceanCurrents, in its two       *)
(* variants: src/services/physics/ocean.ts ("prod") and the unified engine *)
(* with the optional debugMonth argument, src/unnamed/part_004 ("uni").    *)
(*                                                                         *)
(* Numbers.  The program computes in IEEE doubles.  Here every real is a   *)
(* fixed-point integer counting hundredths (SC units per 1.0): a grid      *)
(* coordinate 4.25 is 425, a speed 1.0 is 100, a latitude of 45 degrees is *)
(* 4500, a field value -50.0 is -5000.  Products are rescaled with Mul,    *)
(* quotients with RDiv (round to nearest), Math.floor is Floor, Math.round *)
(* is Round, Math.sqrt is Sqrt (integer square root).  A store into a       *)
(* Float32Array rounds to single precision: Fround.                        *)
(***************************************************************************)
EXTENDS Integers, Sequences, FiniteSets, TLC

VARIABLES
    variant,            \* "prod" (ocean.ts) or "uni" (part_004)
    grid,               \* GridCell[]: the distCoast of every cell, row-major
    config,             \* SimulationConfig: resolutionLat, resolutionLon
    itczLines,          \* number[][]: month -> ITCZ latitude per column
    phys,               \* PhysicsParams
    planet,             \* PlanetParams (uni only)
    debugMonth,         \* uni only: a month, or NoMonth for undefined
    randomDraws,        \* the values Math.random returns, in order (cyclic)
    rngPos,             \* number of draws consumed so far
    collisionField, distGradX, distGradY, collisionMask,
    targetMonths, mi,   \* the months to simulate and the index of the current one
    finishedLines, impactResults, impactPointsTemp,
    flowGrid,           \* flowGridU/V/Count: cell index -> <<u, v>> where count = 1
    eccAgents, agentPoints, ecAgents, ecPoints, nextAgentId,
    step, stepsUsedECC, maxStepsEC, startStepPhase2,
    loopAgents, ai,     \* the agents the current outer step iterates, and the position
    ss, isDead,         \* sub-step counter and the isDead flag of the current agent
    debugFrames, frameSnapshot, collectedDebugData,
    streamlinesByMonth, impactsByMonth, diagnostics,
    outcome,            \* "running", "returned"
    pc,
    subLog,             \* history: the branches taken by the sub-steps of the current agent
    termLog,            \* history: every termination, as [pass, id, cause]
    flowWriter          \* history: cell index -> <<pass, id>> of the agent whose call of
                        \* updateAndCheckPruning recorded the cell's flow

\* the state of the OceanDebugView component (OceanDebugView.tsx)
VARIABLES
    propPhys,               \* props.phys
    propEffectivePhys,      \* props.effectivePhys, if given
    targetMonth,            \* useState<0 | 6>
    debugData,              \* useState<DebugSimulationData | null>: the data, if any
    loading, currentStep, isPlaying, showOverlayECTargets,
    timer,                  \* the pending setTimeout callbacks, as the values their
                            \* closures captured
    canvas                  \* what the rendering effect last drew, if anything

viewVars == <<propPhys, propEffectivePhys, targetMonth, debugData, loading, currentStep,
              isPlaying, showOverlayECTargets, timer, canvas>>
\* the locals of runDebugSimulation (part_003) that computeOceanCurrents has no
\* counterpart of; `agents` and `state` are dbgAgents and dbgState here
VARIABLES dbgAgents, ecSpawns, allEcSpawns, frames, dbgState, causeOfDeath

\* the smoothing loop taken one iteration at a time: its counter, and the field the last
\* iteration read (history)
VARIABLES iter, fieldBefore

debugVars == <<dbgAgents, ecSpawns, allEcSpawns, frames, dbgState, causeOfDeath>>
inputVars == <<variant, grid, config, itczLines, phys, planet, debugMonth, randomDraws>>
fieldVars == <<collisionField, distGradX, distGradY, collisionMask, targetMonths, iter,
              fieldBefore>>
monthVars == <<finishedLines, impactResults, impactPointsTemp, flowGrid, eccAgents,
               agentPoints, ecAgents, ecPoints, nextAgentId, stepsUsedECC, maxStepsEC,
               startStepPhase2, debugFrames>>
loopVars  == <<step, loopAgents, ai, ss, isDead, frameSnapshot, subLog, termLog,
              flowWriter>>
outVars   == <<streamlinesByMonth, impactsByMonth, diagnostics, collectedDebugData, outcome>>
vars == <<inputVars, fieldVars, monthVars, loopVars, outVars, mi, rngPos, pc, viewVars,
         debugVars>>

----------------------------------------------------------------------------
(* Fixed-point arithmetic *)

SC == 100

Abs(a) == IF a < 0 THEN -a ELSE a
Min(a, b) == IF a < b THEN a ELSE b
Max(a, b) == IF a > b THEN a ELSE b

\* a / b rounded to the nearest integer (halves up), b > 0
RDiv(a, b) == (2 * a + b) \div (2 * b)
\* the product of two fixed-point numbers
Mul(a, b) == RDiv(a * b, SC)
\* Math.floor and Math.round of a fixed-point number, as a plain integer
Floor(a) == a \div SC
Round(a) == (a + SC \div 2) \div SC
\* the fractional part x - Math.floor(x), fixed-point
Frac(a) == a - SC * Floor(a)

RECURSIVE SqrtIter(_, _, _)
SqrtIter(n, lo, hi) ==
    IF hi - lo <= 1 THEN lo
    ELSE LET mid == (lo + hi) \div 2
         IN IF mid * mid <= n THEN SqrtIter(n, mid, hi) ELSE SqrtIter(n, lo, mid)
\* floor of the square root of a natural number
ISqrt(n) == IF n <= 0 THEN 0 ELSE SqrtIter(n, 0, Min(n, 46340) + 1)
\* Math.sqrt(vx*vx + vy*vy) of two fixed-point numbers, fixed-point
Hypot(a, b) == ISqrt(a * a + b * b)
\* Math.sqrt of a fixed-point number, fixed-point
Sqrt(a) == ISqrt(a * SC)

----------------------------------------------------------------------------
(* Grid helpers (ocean.ts 34-46) *)

rows == config.resolutionLat
cols == config.resolutionLon
Cells == 0 .. (rows * cols - 1)

\* ((c % cols) + cols) % cols, and r clamped to [0, rows-1]; c and r are integers
getIdx(c, r) == Max(0, Min(rows - 1, r)) * cols + (c % cols)

getLatFromRow(r) == 90 * SC - RDiv(r * 180, rows - 1)
getRowFromLat(lat) == RDiv((90 * SC - lat) * (rows - 1), 180)
getLonFromCol(c) == -180 * SC + RDiv(c * 360, cols)

----------------------------------------------------------------------------
(* STEP 2.0: collision field, smoothing, gradients *)

\* p / d rounded to the nearest integer, ties to the even one; p >= 0, d > 0
HalfEvenOf(q, twiceRest, d) ==
    IF twiceRest < d THEN q
    ELSE IF twiceRest > d THEN q + 1
    ELSE IF q % 2 = 0 THEN q ELSE q + 1
HalfEven(p, d) == HalfEvenOf(p \div d, 2 * (p % d), d)

\* below 2^17 a single-precision number is less than half a hundredth away from the double
\* it was rounded from
F32Exact == 131072 * SC
\* the binary exponent of a magnitude a, F32Exact <= a: 2^e <= a / SC < 2^(e+1)
F32Exponent(a) ==
    IF a >= 16777216 * SC THEN 24
    ELSE CHOOSE e \in 17 .. 23 : (2 ^ e) * SC <= a /\ a < 2 * ((2 ^ e) * SC)
\* a magnitude rounded to a number of 24 significant bits: to a multiple of 2^(e-23)
FroundAt(a, e) ==
    IF e >= 24 THEN HalfEven(a, 2 * SC) * 2 * SC
    ELSE (HalfEven(a * (2 ^ (23 - e)), SC) * SC + (2 ^ (23 - e)) \div 2) \div (2 ^ (23 - e))
FroundAbs(a) == IF a < F32Exact THEN a ELSE FroundAt(a, F32Exponent(a))
\* the value an element of a Float32Array holds after a number was stored into it
\* (Math.fround), for magnitudes below 2^25
Fround(a) == IF a < 0 THEN -FroundAbs(-a) ELSE FroundAbs(a)

\* faulty variant of RawField: the distance to the coast is taken unsigned
RawFieldUnsigned(g, buffer) ==
    [i \in Cells |-> IF i < Len(g) THEN Abs(g[i + 1]) + buffer ELSE 0]

\* collisionField[i] = grid[i].distCoast + buffer for i < grid.length; a
\* Float32Array of rows*cols zeros otherwise (writes past its end are dropped)
RawField(g, buffer) ==
    [i \in Cells |-> IF i < Len(g) THEN Fround(g[i + 1] + buffer) ELSE 0]

\* faulty variant of BlurOnce: the columns are clamped like the rows
BlurOnceColumnsClamped(f) ==
    [i \in Cells |->
        LET r == i \div cols
            c == i % cols
            l == Max(0, c - 1)
            h == Min(cols - 1, c + 1)
            sum == f[getIdx(l, r - 1)] + f[getIdx(c, r - 1)] + f[getIdx(h, r - 1)]
                 + f[getIdx(l, r)]     + f[getIdx(c, r)]     + f[getIdx(h, r)]
                 + f[getIdx(l, r + 1)] + f[getIdx(c, r + 1)] + f[getIdx(h, r + 1)]
        IN Fround(RDiv(sum, 9))]

\* one pass of the 3x3 box blur: columns wrap, rows clamp
BlurOnce(f) ==
    [i \in Cells |->
        LET r == i \div cols
            c == i % cols
            sum == f[getIdx(c - 1, r - 1)] + f[getIdx(c, r - 1)] + f[getIdx(c + 1, r - 1)]
                 + f[getIdx(c - 1, r)]     + f[getIdx(c, r)]     + f[getIdx(c + 1, r)]
                 + f[getIdx(c - 1, r + 1)] + f[getIdx(c, r + 1)] + f[getIdx(c + 1, r + 1)]
        IN Fround(RDiv(sum, 9))]

RECURSIVE Smooth(_, _)
Smooth(f, iters) == IF iters <= 0 THEN f ELSE Smooth(BlurOnce(f), iters - 1)

\* central differences; the factor 0.5 is kept by halving
GradX(f) == [i \in Cells |->
               Fround(RDiv(f[getIdx((i % cols) + 1, i \div cols)]
                           - f[getIdx((i % cols) - 1, i \div cols)], 2))]
GradY(f) == [i \in Cells |->
               Fround(RDiv(f[getIdx(i % cols, (i \div cols) + 1)]
                           - f[getIdx(i % cols, (i \div cols) - 1)], 2))]

\* bilinear interpolation of one array at the fractions fx, fy
Interpolate(a, i00, i10, i01, i11, fx, fy) ==
    LET top == a[i00] * (SC - fx) + a[i10] * fx
        bot == a[i01] * (SC - fx) + a[i11] * fx
    IN RDiv(RDiv(top * (SC - fy), SC) + RDiv(bot * fy, SC), SC)

getEnvironment(x, y) ==
    LET c == Floor(x)
        r == Floor(y)
        fx == Frac(x)
        fy == Frac(y)
        idx00 == getIdx(c, r)
        idx10 == getIdx(c + 1, r)
        idx01 == getIdx(c, r + 1)
        idx11 == getIdx(c + 1, r + 1)
    IN [dist |-> Interpolate(collisionField, idx00, idx10, idx01, idx11, fx, fy),
        gx   |-> Interpolate(distGradX, idx00, idx10, idx01, idx11, fx, fy),
        gy   |-> Interpolate(distGradY, idx00, idx10, idx01, idx11, fx, fy)]

----------------------------------------------------------------------------
(* Helpers shared by both passes *)

NoMonth == -1
SUB_STEPS == 10
TOTAL_DT == 50
DT == TOTAL_DT \div SUB_STEPS
BISECT_ITERS == 4

\* the current month and its ITCZ line (0-based columns, as in the code)
m == targetMonths[mi]
itcz(c) == itczLines[m][c + 1]

\* Math.floor(((agent.x % cols) + cols) % cols)
LonIdx(x) == Floor(x) % cols

Point(a) == [x |-> a.x, y |-> a.y, lon |-> getLonFromCol(a.x), lat |-> getLatFromRow(a.y),
             vx |-> a.vx, vy |-> a.vy]

Impact(x, y, type) ==
    [x |-> x, y |-> y, lat |-> getLatFromRow(y), lon |-> getLonFromCol(x), type |-> type]

\* (gx, gy) / gradLen when gradLen > 0 (0.0001 is below the fixed-point unit), else (0, 0)
Unit(gx, gy, gradLen) ==
    IF gradLen > 0
    THEN [nx |-> RDiv(gx * SC, gradLen), ny |-> RDiv(gy * SC, gradLen), len |-> gradLen]
    ELSE [nx |-> 0, ny |-> 0, len |-> gradLen]

Normal(gx, gy) == Unit(gx, gy, Hypot(gx, gy))

Dot(ax, ay, bx, by) == RDiv(ax * bx + ay * by, SC)

\* the midpoint sampled at parameter tMid / 16 of the segment
MidPoint(x, y, nextX, nextY, tMid) ==
    <<x + RDiv((nextX - x) * tMid, 16), y + RDiv((nextY - y) * tMid, 16)>>

\* the 4-iteration binary search for the crossing between (x, y) and (nextX, nextY);
\* t counts sixteenths; hit is the last midpoint sampled
RECURSIVE BisectIter(_, _, _, _, _, _, _, _)
BisectFrom(k, tLow, tHigh, tMid, mid, x, y, nextX, nextY) ==
    IF getEnvironment(mid[1], mid[2]).dist > 0
    THEN BisectIter(k + 1, tLow, tMid, mid, x, y, nextX, nextY)
    ELSE BisectIter(k + 1, tMid, tHigh, mid, x, y, nextX, nextY)

BisectIter(k, tLow, tHigh, hit, x, y, nextX, nextY) ==
    IF k = BISECT_ITERS THEN [tLow |-> tLow, tHigh |-> tHigh, hitX |-> hit[1], hitY |-> hit[2]]
    ELSE BisectFrom(k, tLow, tHigh, (tLow + tHigh) \div 2,
                    MidPoint(x, y, nextX, nextY, (tLow + tHigh) \div 2), x, y, nextX, nextY)

Bisect(x, y, nextX, nextY) == BisectIter(0, 0, 16, <<x, y>>, x, y, nextX, nextY)

\* the comparison against the cached flow: sim = dot / (len1*len2 + 0.0001) > 0.95
Similar(vx, vy, ex, ey) == 100 * (vx * ex + vy * ey) > 95 * (Hypot(vx, vy) * Hypot(ex, ey) + 1)

\* faulty variant of PruneAt: a flow that differs from the cached one replaces it
PruneAtOverwrite(fg, idx, vx, vy) ==
    IF idx \notin DOMAIN fg
    THEN [flow |-> fg @@ (idx :> <<vx, vy>>), pruned |-> FALSE]
    ELSE IF Similar(vx, vy, fg[idx][1], fg[idx][2]) THEN [flow |-> fg, pruned |-> TRUE]
    ELSE [flow |-> [fg EXCEPT ![idx] = <<vx, vy>>], pruned |-> FALSE]

\* count === 0: store the flow (flowGridU and flowGridV are Float32Arrays), not pruned;
\* otherwise compare with the stored flow
PruneAt(fg, idx, vx, vy) ==
    IF idx \notin DOMAIN fg
    THEN [flow |-> fg @@ (idx :> <<Fround(vx), Fround(vy)>>), pruned |-> FALSE]
    ELSE [flow |-> fg, pruned |-> Similar(vx, vy, fg[idx][1], fg[idx][2])]

\* updateAndCheckPruning: the cache after the call and the boolean it returns
updateAndCheckPruning(fg, x, y, vx, vy) == PruneAt(fg, getIdx(Round(x), Round(y)), vx, vy)

\* the writers of the cache fg, which the call made for the agent id has just left: a cell
\* it gained was written for that agent
WrittenBy(fg, id) ==
    [c \in DOMAIN fg |-> IF c \in DOMAIN flowWriter THEN flowWriter[c]
                         ELSE <<IF pc = "eccAgent" THEN "ECC" ELSE "EC", id>>]

\* ocean.ts findSafeSpawnX: raycast west in half-cell steps for dist < -10
RECURSIVE ProdSpawnSearch(_, _, _, _)
ProdSpawnSearch(i, currX, startX, y) ==
    IF i = 40 THEN startX - 10 * SC
    ELSE IF getEnvironment(currX, y).dist < -10 * SC THEN currX - SC
    ELSE ProdSpawnSearch(i + 1, currX - SC \div 2, startX, y)

ProdFindSafeSpawnX(startX, y) == ProdSpawnSearch(0, startX, startX, y)

SpawnPoint(sx, y) == [x |-> sx, y |-> y, lat |-> getLatFromRow(y), lon |-> getLonFromCol(sx)]

\* faulty variant of CollisionBranch: a candidate position counts as inside the wall
\* only from 10 km on
CollisionBranchMargin(distOld, distNew) ==
    IF distNew > 10 * SC /\ distOld <= 0 THEN "cross"
    ELSE IF distNew > 10 * SC THEN "inside"
    ELSE "clear"

\* which of the three position branches a sub-step takes
CollisionBranch(distOld, distNew) ==
    IF distNew > 0 /\ distOld <= 0 THEN "cross"
    ELSE IF distNew > 0 THEN "inside"
    ELSE "clear"

\* faulty variant of ClampSpeed: the limit is applied from twice maxSpeed on
ClampSpeedFromDouble(nvx, nvy, speed, maxSpeed) ==
    IF speed > 2 * maxSpeed
    THEN <<RDiv(nvx * maxSpeed, speed), RDiv(nvy * maxSpeed, speed)>>
    ELSE <<nvx, nvy>>

\* speed limit: (nvx, nvy) scaled to maxSpeed when speed exceeds it
ClampSpeed(nvx, nvy, speed, maxSpeed) ==
    IF speed > maxSpeed
    THEN <<RDiv(nvx * maxSpeed, speed), RDiv(nvy * maxSpeed, speed)>>
    ELSE <<nvx, nvy>>

\* the result of a sub-step: the agent, whether the sub-step loop breaks, the branch
\* taken and the cause of a termination, the impacts and spawn points recorded and
\* the diagnostics pushed (sequences), the number of Math.random draws, and the local
\* `speed` where the sub-step computed it (-1 where it did not), and the segment and the
\* outcome of the binary search where the sub-step ran one (history)
SubResult(a, dead, branch, cause, distOld) ==
    [agent |-> a, dead |-> dead, branch |-> branch, cause |-> cause, distOld |-> distOld,
     impacts |-> <<>>, spawns |-> <<>>, diags |-> <<>>, draws |-> 0, speed |-> -1,
     bisection |-> <<>>]

\* the binary search of a sub-step, for the history
Searched(x, y, nextX, nextY) ==
    <<[x |-> x, y |-> y, nextX |-> nextX, nextY |-> nextY, b |-> Bisect(x, y, nextX, nextY)]>>

----------------------------------------------------------------------------
(* PASS 1 of ocean.ts: one sub-step of one ECC agent (lines 236-359).       *)
(* Each stage passes what it computed to the next as arguments.            *)

\* speed limit, speed floor, velocity commit and bounds check (335-358)
ProdEccLimit(agent, lonIdx, x, y, v, speed, branch, distOld) ==
    IF speed < 1
    THEN SubResult([agent EXCEPT !.x = x, !.y = y, !.active = FALSE],
                   TRUE, branch, "SpeedFloor", distOld)
    ELSE IF Abs(getLatFromRow(y) - itcz(lonIdx)) > RDiv(phys.oceanDeflectLat * 15, 10)
    THEN SubResult([agent EXCEPT !.x = x, !.y = y, !.vx = v[1], !.vy = v[2], !.active = FALSE],
                   TRUE, branch, "Deflection", distOld)
    ELSE SubResult([agent EXCEPT !.x = x, !.y = y, !.vx = v[1], !.vy = v[2]],
                   FALSE, branch, "", distOld)

ProdEccFinish(agent, lonIdx, x, y, nvx, nvy, speed, branch, distOld) ==
    [ProdEccLimit(agent, lonIdx, x, y,
                  ClampSpeed(nvx, nvy, speed, RDiv(phys.oceanBaseSpeed * 25, 10)),
                  speed, branch, distOld)
        EXCEPT !.speed = speed]

ProdEccMoved(agent, lonIdx, x, y, nvx, nvy, branch, distOld) ==
    ProdEccFinish(agent, lonIdx, x, y, nvx, nvy, Hypot(nvx, nvy), branch, distOld)

\* head-on impact or slide along the wall tangent (280-317)
ProdEccHit(agent, lonIdx, nvx, nvy, distOld, b, n, vDotN) ==
    IF vDotN > 5
    THEN [SubResult([agent EXCEPT !.active = FALSE], TRUE, "impact", "Impact", distOld)
            EXCEPT !.impacts = <<Impact(b.hitX, b.hitY, "ECC")>>,
                   !.spawns = <<SpawnPoint(ProdFindSafeSpawnX(b.hitX, b.hitY), b.hitY)>>]
    ELSE ProdEccMoved(agent, lonIdx, b.hitX - Mul(n.nx, 10), b.hitY - Mul(n.ny, 10),
                      nvx - Mul(vDotN, n.nx), nvy - Mul(vDotN, n.ny), "slide", distOld)

\* the wall normal at the hit point and the inward velocity component (274-282)
ProdEccNormal(agent, lonIdx, nvx, nvy, distOld, b, n) ==
    ProdEccHit(agent, lonIdx, nvx, nvy, distOld, b, n, Dot(nvx, nvy, n.nx, n.ny))

ProdEccCross(agent, lonIdx, nvx, nvy, distOld, b, hEnv) ==
    ProdEccNormal(agent, lonIdx, nvx, nvy, distOld, b, Normal(hEnv.gx, hEnv.gy))

\* already inside the wall: soft push out along the negative gradient (318-328)
ProdEccRecover(agent, lonIdx, nvx, nvy, distOld, n, pushFactor) ==
    ProdEccMoved(agent, lonIdx, agent.x - Mul(n.nx, pushFactor), agent.y - Mul(n.ny, pushFactor),
                 nvx, nvy, "recovery", distOld)

\* the three branches of the collision detection (257, 318, 329)
ProdEccCollide(agent, lonIdx, nvx, nvy, nextX, nextY, distOld, envNew, branch) ==
    IF branch = "cross"
    THEN [ProdEccCross(agent, lonIdx, nvx, nvy, distOld, Bisect(agent.x, agent.y, nextX, nextY),
                       getEnvironment(Bisect(agent.x, agent.y, nextX, nextY).hitX,
                                      Bisect(agent.x, agent.y, nextX, nextY).hitY))
            EXCEPT !.bisection = Searched(agent.x, agent.y, nextX, nextY)]
    ELSE IF branch = "inside"
    THEN ProdEccRecover(agent, lonIdx, nvx, nvy, distOld, Normal(envNew.gx, envNew.gy),
                        envNew.dist + 10)
    ELSE ProdEccMoved(agent, lonIdx, nextX, nextY, nvx, nvy, "clear", distOld)

ProdEccProbe(agent, lonIdx, nvx, nvy, nextX, nextY, distOld, envNew) ==
    ProdEccCollide(agent, lonIdx, nvx, nvy, nextX, nextY, distOld, envNew,
                   CollisionBranch(distOld, envNew.dist))

\* proposed position and the field at the old and the new position (249-255)
ProdEccPropose(agent, lonIdx, nvx, nvy, nextX, nextY) ==
    ProdEccProbe(agent, lonIdx, nvx, nvy, nextX, nextY,
                 getEnvironment(agent.x, agent.y).dist, getEnvironment(nextX, nextY))

ProdEccCandidate(agent, lonIdx, nvx, nvy) ==
    ProdEccPropose(agent, lonIdx, nvx, nvy, agent.x + Mul(nvx, DT), agent.y + Mul(nvy, DT))

\* forces and candidate velocity (237-247)
ProdEccForces(agent, lonIdx) ==
    ProdEccCandidate(agent, lonIdx,
                     agent.vx + RDiv(phys.oceanBaseSpeed * 5, 100),
                     agent.vy + Mul(getRowFromLat(itcz(lonIdx)) - agent.y, phys.oceanPatternForce))

ProdEccSubStep(agent) == ProdEccForces(agent, LonIdx(agent.x))

----------------------------------------------------------------------------
(* PASS 2 of ocean.ts: one sub-step of one EC agent (lines 426-563) *)

\* the value the next call of Math.random returns, in hundredths
NextRandom == randomDraws[(rngPos % Len(randomDraws)) + 1]

\* currentDamping * (1 - factor) + targetDamping * factor
BlendDamping(currentDamping, targetDamping, factor) ==
    Mul(currentDamping, SC - factor) + Mul(targetDamping, factor)

\* damping raised toward 1.5 x critical damping as |errorY| falls below 3.0
ProdEcDamping(errorY) ==
    IF Abs(errorY) < 3 * SC
    THEN BlendDamping(phys.oceanEcDamping,
                      Max(phys.oceanEcDamping, RDiv(2 * Sqrt(phys.oceanEcPatternForce) * 15, 10)),
                      RDiv((3 * SC - Abs(errorY)) * SC, 3 * SC))
    ELSE phys.oceanEcDamping

\* speed limit, speed floor, velocity commit and polar exit (542-562)
ProdEcLimit(agent, x, y, v, speed, branch, distOld, imps, draws) ==
    IF speed < 1
    THEN [SubResult([agent EXCEPT !.x = x, !.y = y, !.active = FALSE],
                    TRUE, branch, "SpeedFloor", distOld)
            EXCEPT !.impacts = imps, !.draws = draws]
    ELSE IF Abs(getLatFromRow(y)) > 85 * SC
    THEN [SubResult([agent EXCEPT !.x = x, !.y = y, !.vx = v[1], !.vy = v[2], !.active = FALSE],
                    TRUE, branch, "PolarExit", distOld)
            EXCEPT !.impacts = imps, !.draws = draws]
    ELSE [SubResult([agent EXCEPT !.x = x, !.y = y, !.vx = v[1], !.vy = v[2]],
                    FALSE, branch, "", distOld)
            EXCEPT !.impacts = imps, !.draws = draws]

ProdEcFinish(agent, x, y, nvx, nvy, speed, branch, distOld, imps, draws) ==
    [ProdEcLimit(agent, x, y, ClampSpeed(nvx, nvy, speed, phys.oceanBaseSpeed * 2),
                 speed, branch, distOld, imps, draws)
        EXCEPT !.speed = speed]

ProdEcMoved(agent, x, y, nvx, nvy, branch, distOld, imps, draws) ==
    ProdEcFinish(agent, x, y, nvx, nvy, Hypot(nvx, nvy), branch, distOld, imps, draws)

\* faulty variant of ProdEcHit: the friction of a hard collision is applied inside the
\* branch taken with probability 0.1, together with the recording of the impact
ProdEcHitDrawnFriction(agent, rnd, nvx, nvy, distOld, b, n, vDotN) ==
    IF vDotN > 5 /\ rnd < 10
    THEN ProdEcMoved(agent, b.hitX - Mul(n.nx, 10), b.hitY - Mul(n.ny, 10),
                     RDiv((nvx - Mul(vDotN, n.nx)) * 9, 10),
                     RDiv((nvy - Mul(vDotN, n.ny)) * 9, 10), "impact", distOld,
                     <<Impact(b.hitX, b.hitY, "EC")>>, 1)
    ELSE ProdEcMoved(agent, b.hitX - Mul(n.nx, 10), b.hitY - Mul(n.ny, 10),
                     nvx - Mul(vDotN, n.nx), nvy - Mul(vDotN, n.ny),
                     IF vDotN > 5 THEN "impact" ELSE "slide", distOld, <<>>,
                     IF vDotN > 5 THEN 1 ELSE 0)

\* hard collision: the impact is recorded with probability 0.1, the slide has friction
\* 0.9; otherwise a plain slide (496-522)
ProdEcHit(agent, rnd, nvx, nvy, distOld, b, n, vDotN) ==
    IF vDotN > 5
    THEN ProdEcMoved(agent, b.hitX - Mul(n.nx, 10), b.hitY - Mul(n.ny, 10),
                     RDiv((nvx - Mul(vDotN, n.nx)) * 9, 10),
                     RDiv((nvy - Mul(vDotN, n.ny)) * 9, 10), "impact", distOld,
                     IF rnd < 10 THEN <<Impact(b.hitX, b.hitY, "EC")>> ELSE <<>>, 1)
    ELSE ProdEcMoved(agent, b.hitX - Mul(n.nx, 10), b.hitY - Mul(n.ny, 10),
                     nvx - Mul(vDotN, n.nx), nvy - Mul(vDotN, n.ny), "slide", distOld, <<>>, 0)

ProdEcNormal(agent, rnd, nvx, nvy, distOld, b, n) ==
    ProdEcHit(agent, rnd, nvx, nvy, distOld, b, n, Dot(nvx, nvy, n.nx, n.ny))

ProdEcCross(agent, rnd, nvx, nvy, distOld, b, hEnv) ==
    ProdEcNormal(agent, rnd, nvx, nvy, distOld, b, Normal(hEnv.gx, hEnv.gy))

\* inside the wall: pushed out along the gradient, or dead where the field is flat (523-536)
ProdEcRecover(agent, nvx, nvy, distOld, n, pushOut) ==
    IF n.len > 0
    THEN ProdEcMoved(agent, agent.x - Mul(n.nx, pushOut), agent.y - Mul(n.ny, pushOut),
                     nvx, nvy, "recovery", distOld, <<>>, 0)
    ELSE SubResult([agent EXCEPT !.active = FALSE], TRUE, "recovery", "Embedded", distOld)

ProdEcCollide(agent, rnd, nvx, nvy, nextX, nextY, distOld, envNew, n, branch) ==
    IF branch = "cross"
    THEN [ProdEcCross(agent, rnd, nvx, nvy, distOld, Bisect(agent.x, agent.y, nextX, nextY),
                      getEnvironment(Bisect(agent.x, agent.y, nextX, nextY).hitX,
                                     Bisect(agent.x, agent.y, nextX, nextY).hitY))
            EXCEPT !.bisection = Searched(agent.x, agent.y, nextX, nextY)]
    ELSE IF branch = "inside"
    THEN ProdEcRecover(agent, nvx, nvy, distOld, n, envNew.dist + 10)
    ELSE ProdEcMoved(agent, nextX, nextY, nvx, nvy, "clear", distOld, <<>>, 0)

\* soft repulsion inside the 50 km force field: 0.8 * (1 - distNew / -50) (462-472)
ProdEcRepel(agent, rnd, nvx, nvy, nextX, nextY, distOld, envNew, n, repulsion) ==
    IF envNew.dist > -50 * SC /\ n.len > 0
    THEN ProdEcCollide(agent, rnd, nvx - Mul(n.nx, repulsion), nvy - Mul(n.ny, repulsion),
                       nextX, nextY, distOld, envNew, n, CollisionBranch(distOld, envNew.dist))
    ELSE ProdEcCollide(agent, rnd, nvx, nvy, nextX, nextY, distOld, envNew, n,
                       CollisionBranch(distOld, envNew.dist))

ProdEcProbe(agent, rnd, nvx, nvy, nextX, nextY, distOld, envNew) ==
    ProdEcRepel(agent, rnd, nvx, nvy, nextX, nextY, distOld, envNew,
                Normal(envNew.gx, envNew.gy), RDiv(80 * (50 * SC + envNew.dist), 50 * SC))

ProdEcPropose(agent, rnd, nvx, nvy, nextX, nextY) ==
    ProdEcProbe(agent, rnd, nvx, nvy, nextX, nextY,
                getEnvironment(agent.x, agent.y).dist, getEnvironment(nextX, nextY))

ProdEcCandidate(agent, rnd, nvx, nvy) ==
    ProdEcPropose(agent, rnd, nvx, nvy, agent.x + Mul(nvx, DT), agent.y + Mul(nvy, DT))

\* PD control toward the target latitude (429-455)
ProdEcControl(agent, rnd, errorY) ==
    ProdEcCandidate(agent, rnd, agent.vx - RDiv(phys.oceanBaseSpeed * 5, 100),
                    agent.vy + Mul(errorY, phys.oceanEcPatternForce)
                             - Mul(agent.vy, ProdEcDamping(errorY)))

ProdEcTarget(agent, rnd, targetLat) ==
    ProdEcControl(agent, rnd, getRowFromLat(targetLat) - agent.y)

\* rnd: the value Math.random returns if this sub-step draws one
ProdEcSubStep(agent, rnd) ==
    ProdEcTarget(agent, rnd,
                 IF agent.type = "EC_N" THEN itcz(LonIdx(agent.x)) + phys.oceanEcLatGap
                                        ELSE itcz(LonIdx(agent.x)) - phys.oceanEcLatGap)

----------------------------------------------------------------------------
(* Sequence helpers *)

AllIds(agents) == [i \in 1 .. Len(agents) |-> agents[i].id]

\* eccAgents.filter(a => a.active), as the sequence of ids
ActiveIds(agents) == AllIds(SelectSeq(agents, LAMBDA a : a.active))

\* the position, from i on, of the agent with this id in `agents` (0: none)
PosOf(agents, id, i) ==
    IF \E k \in i .. Len(agents) : agents[k].id = id
    THEN CHOOSE k \in i .. Len(agents) : agents[k].id = id
    ELSE 0

\* faulty variant of StreamType: the two branches of the split current are exchanged
StreamTypeSwapped(t) == IF t = "ECC" THEN "main" ELSE IF t = "EC_N" THEN "split_s" ELSE "split_n"

StreamType(t) == IF t = "ECC" THEN "main" ELSE IF t = "EC_N" THEN "split_n" ELSE "split_s"

\* the streamline emitted for one agent
LineFor(a, pts) == [points |-> pts[a.id], strength |-> a.strength, type |-> StreamType(a.type)]

\* the streamlines of a list of agents, in order
LinesFor(agents, pts) == [k \in 1 .. Len(agents) |-> LineFor(agents[k], pts)]

\* faulty variant of PushLines: a trajectory is emitted from 5 samples on
PushLinesFromFive(lines, agents, pts, i) ==
    lines \o LinesFor(SelectSeq(SubSeq(agents, i, Len(agents)),
                                LAMBDA a : a.id \in DOMAIN pts /\ Len(pts[a.id]) >= 5), pts)

\* for (const agent of agents) if (points[agent.id].length > 5) finishedLines.push(...)
PushLines(lines, agents, pts, i) ==
    lines \o LinesFor(SelectSeq(SubSeq(agents, i, Len(agents)),
                                LAMBDA a : a.id \in DOMAIN pts /\ Len(pts[a.id]) > 5), pts)

----------------------------------------------------------------------------
(* Phase-1 seeding (ocean.ts 179-218, part_004 210-239) *)

gapFillInterval == cols \div 64

\* c % gapFillInterval === 0; with gapFillInterval = 0 the remainder is NaN
IsGapFill(c) == gapFillInterval # 0 /\ c % gapFillInterval = 0

ShouldSpawn(c) ==
    LET r == getRowFromLat(itcz(c))
        westIdx == getIdx(c - 1, Round(r))
    IN /\ ~(r < 0 \/ r >= rows * SC)
       /\ ~(getEnvironment(c * SC, r).dist > -20 * SC)
       /\ (collisionField[westIdx] > 0 \/ IsGapFill(c))

\* the agent seeded on column c as the one with this id
EccAgent(c, id, extra) ==
    [id |-> id, active |-> TRUE, x |-> c * SC, y |-> getRowFromLat(itcz(c)),
     vx |-> phys.oceanBaseSpeed, vy |-> 0, strength |-> 2 * SC, type |-> "ECC"] @@ extra

\* the columns from c on, in order
ColsFrom(c) == [k \in 1 .. cols - c |-> c + k - 1]

\* for (let c = 0; c < cols; c++) if (shouldSpawn) eccAgents.push(...)
SpawnEccFrom(c, agents, extra) ==
    agents \o [k \in 1 .. Len(SelectSeq(ColsFrom(c), ShouldSpawn)) |->
                 EccAgent(SelectSeq(ColsFrom(c), ShouldSpawn)[k], Len(agents) + k - 1, extra)]

\* points arrays are indexed by agent id (0-based)
InitPoints(agents) ==
    [id \in {agents[i].id : i \in 1 .. Len(agents)} |->
        <<Point(agents[PosOf(agents, id, 1)])>>]

----------------------------------------------------------------------------
(* Inputs *)

\* the step budget phys.oceanStreamlineSteps of every scenario
MaxSteps == 14

\* distCoast of every cell, row-major: landDist on the cells of `land`, oceanDist elsewhere
GridOf(nr, nc, land, landDist, oceanDist) ==
    [i \in 1 .. nr * nc |->
        IF <<(i - 1) \div nc, (i - 1) % nc>> \in land THEN landDist ELSE oceanDist]

\* a continent on the columns wallCols of the rows wallRows
Continent(wallRows, wallCols) == {<<r, c>> : r \in wallRows, c \in wallCols}

FlatLine(nc, lat) == [c \in 1 .. nc |-> lat]

Physics(base, pattern, deflect, gap, offset) ==
    [oceanCollisionBuffer |-> 0, oceanSmoothing |-> 0, oceanBaseSpeed |-> base,
     oceanPatternForce |-> pattern, oceanDeflectLat |-> deflect, oceanEcLatGap |-> gap,
     oceanEcPolewardDrift |-> 20, oceanEcPatternForce |-> 5, oceanEcDamping |-> 10,
     oceanStreamlineSteps |-> MaxSteps, oceanSpawnOffset |-> offset]

\* coast with a headland and an islet: impacts, slides, recoveries, pruning in both passes
Headland ==
    [nr |-> 5, nc |-> 12,
     grid |-> GridOf(5, 12, Continent(1 .. 4, {0, 11}) \cup {<<2, 2>>, <<2, 9>>}, 50 * SC, -200 * SC),
     phys |-> Physics(100, 10, 10 * SC, 20 * SC, 1000)]

\* a strait between two land masses on the ITCZ row of a fast ocean: stagnation, arrival
Strait ==
    [nr |-> 5, nc |-> 12,
     grid |-> GridOf(5, 12, Continent(1 .. 3, 4 .. 11) \cup {<<1, 1>>, <<1, 5>>}, 100 * SC, -200 * SC),
     phys |-> Physics(200, 10, 30 * SC, 20 * SC, 300)]

\* a one-cell strip of land east of a one-cell channel, the same on every row: the field
\* has no gradient in the channel
Channel ==
    [nr |-> 5, nc |-> 12, grid |-> GridOf(5, 12, Continent(0 .. 4, {1, 11}), 100 * SC, -50 * SC),
     phys |-> Physics(40, 10, 30 * SC, 20 * SC, 1000)]

\* a two-cell islet just south of the ITCZ row, open water all around the globe
Islet ==
    [nr |-> 5, nc |-> 12, grid |-> GridOf(5, 12, {<<2, 10>>, <<2, 11>>}, 50 * SC, -100 * SC),
     phys |-> Physics(60, 10, 30 * SC, 20 * SC, 1000)]

\* no land anywhere: gap-fill seeding alone, at 64 columns
OpenOcean ==
    [nr |-> 3, nc |-> 64, grid |-> GridOf(3, 64, {}, 50 * SC, -200 * SC),
     phys |-> Physics(100, 10, 10 * SC, 20 * SC, 1000)]

\* two strips of land from pole to pole; the return current has no poleward drift and no
\* latitude gap, so it runs along the ITCZ row into the east face of a strip
Meridians ==
    [nr |-> 5, nc |-> 12, grid |-> GridOf(5, 12, Continent(0 .. 4, {2, 8}), 100 * SC, -200 * SC),
     phys |-> [Physics(100, 10, 10 * SC, 0, 1000) EXCEPT !.oceanEcPolewardDrift = 0]]

\* a channel one cell wide, between a strip of land on columns 10-11 and one on columns
\* 1-2; offset is phys.oceanSpawnOffset
Narrows(offset) ==
    [nr |-> 5, nc |-> 12,
     grid |-> GridOf(5, 12, Continent(0 .. 4, {1, 2, 10, 11}), 100 * SC, -200 * SC),
     phys |-> Physics(100, 10, 10 * SC, 20 * SC, offset)]

\* the Islet world with an ocean at rest: oceanBaseSpeed 0
Still == [Islet EXCEPT !.phys = Physics(0, 10, 30 * SC, 20 * SC, 1000)]

\* the Headland grid with its last row missing, and with one cell too many
Truncated == [Headland EXCEPT !.grid = SubSeq(Headland.grid, 1, 48)]
Overlong == [Headland EXCEPT !.grid = Append(Headland.grid, 50 * SC)]

\* no OceanDebugView is mounted
NoView ==
    /\ propPhys = <<>> /\ propEffectivePhys = <<>> /\ targetMonth = 6
    /\ debugData = <<>> /\ loading = TRUE /\ currentStep = 0 /\ isPlaying = FALSE
    /\ showOverlayECTargets = TRUE /\ timer = <<>> /\ canvas = <<>>

\* runDebugSimulation is not running
NoDebugCore ==
    /\ dbgAgents = <<>> /\ ecSpawns = <<>> /\ allEcSpawns = <<>> /\ frames = <<>>
    /\ dbgState = "active" /\ causeOfDeath = "undefined"

InitRest ==
    /\ planet = [radius |-> 6371]
    /\ rngPos = 0
    /\ collisionField = <<>> /\ distGradX = <<>> /\ distGradY = <<>> /\ collisionMask = <<>>
    /\ targetMonths = <<>> /\ mi = 1
    /\ iter = 0 /\ fieldBefore = <<>>
    /\ finishedLines = <<>> /\ impactResults = <<>> /\ impactPointsTemp = <<>>
    /\ flowGrid = <<>>
    /\ eccAgents = <<>> /\ agentPoints = <<>> /\ ecAgents = <<>> /\ ecPoints = <<>>
    /\ nextAgentId = 0
    /\ step = 0 /\ stepsUsedECC = 0 /\ maxStepsEC = 0 /\ startStepPhase2 = 0
    /\ loopAgents = <<>> /\ ai = 1 /\ ss = 0 /\ isDead = FALSE
    /\ debugFrames = <<>> /\ frameSnapshot = <<>> /\ collectedDebugData = "undefined"
    /\ streamlinesByMonth = <<>> /\ impactsByMonth = <<>> /\ diagnostics = <<>>
    /\ outcome = "running"
    /\ pc = "start"
    /\ subLog = <<>> /\ termLog = <<>> /\ flowWriter = <<>>

\* an ITCZ line at latitude lat west of column c0 and at latitude lat2 from c0 on
StepLine(nc, lat, c0, lat2) == [c \in 1 .. nc |-> IF c - 1 < c0 THEN lat ELSE lat2]

\* the arguments of one call: engine, world, the ITCZ lines of month 0 and of month 6,
\* debugMonth, and the values Math.random will return
Call(v, w, line0, line6, dm, draws) ==
    /\ variant = v
    /\ config = [resolutionLat |-> w.nr, resolutionLon |-> w.nc]
    /\ grid = w.grid
    /\ phys = w.phys
    /\ itczLines = (0 :> line0) @@ (6 :> line6)
    /\ debugMonth = dm
    /\ randomDraws = draws

Init ==
    /\ \/ \E l0 \in {0, 20 * SC}, draws \in {<<5>>, <<50, 15>>} :
            Call("prod", Headland, FlatLine(12, l0), FlatLine(12, 0), NoMonth, draws)
       \/ \E dm \in {NoMonth, 0, 6}, draws \in {<<5>>, <<50, 15>>} :
            Call("uni", Strait, FlatLine(12, 45 * SC), FlatLine(12, 45 * SC), dm, draws)
       \/ \E dm \in {NoMonth, 0} :
            Call("uni", Islet, FlatLine(12, 2250), FlatLine(12, 0), dm, <<5>>)
       \/ \E v \in {"prod", "uni"} :
            Call(v, Channel, FlatLine(12, 0), FlatLine(12, 0), NoMonth, <<5>>)
       \/ \E draws \in {<<5>>, <<50>>} :
            Call("prod", Meridians, FlatLine(12, 0), FlatLine(12, 0), NoMonth, draws)
       \/ \E v \in {"prod", "uni"}, offset \in {0, 2000} :
            Call(v, Narrows(offset), FlatLine(12, 0), FlatLine(12, 0), NoMonth, <<5>>)
       \/ Call("prod", Still, FlatLine(12, 0), FlatLine(12, 0), NoMonth, <<5>>)
       \/ Call("prod", OpenOcean, StepLine(64, 0, 60, 45 * SC), FlatLine(64, 0), NoMonth, <<5>>)
       \/ \E v \in {"prod", "uni"}, w \in {Truncated, Overlong} :
            Call(v, w, FlatLine(12, 0), FlatLine(12, 0), NoMonth, <<5>>)
    /\ InitRest
    /\ NoView
    /\ NoDebugCore

----------------------------------------------------------------------------
(* computeOceanCurrents, up to the month loop *)

BuildCollisionField ==
    /\ pc = "start"
    /\ LET f == Smooth(RawField(grid, phys.oceanCollisionBuffer), phys.oceanSmoothing)
       IN /\ collisionField' = f
          /\ distGradX' = GradX(f)
          /\ distGradY' = GradY(f)
          \* grid[i].collisionMask = collisionField[i], undefined past the field
          /\ collisionMask' = [i \in 0 .. Len(grid) - 1 |->
                                  IF i \in Cells THEN f[i] ELSE "undefined"]
    /\ targetMonths' = IF variant = "uni" /\ debugMonth # NoMonth THEN <<debugMonth>>
                       ELSE <<0, 6>>
    /\ mi' = 1
    /\ pc' = "month"
    /\ UNCHANGED <<viewVars, debugVars, iter, fieldBefore,
                   inputVars, monthVars, loopVars, outVars, rngPos>>

\* faulty variant of MonthBegin: the pruning cache is allocated once, outside the month
\* loop, and carries over from one month to the next
MonthBeginSharedCache ==
    /\ pc = "month"
    /\ mi <= Len(targetMonths)
    /\ finishedLines' = <<>> /\ impactResults' = <<>> /\ impactPointsTemp' = <<>>
    /\ debugFrames' = <<>>
    /\ eccAgents' = <<>> /\ agentPoints' = <<>> /\ ecAgents' = <<>> /\ ecPoints' = <<>>
    /\ nextAgentId' = 0
    /\ stepsUsedECC' = 0 /\ maxStepsEC' = 0 /\ startStepPhase2' = 0
    /\ step' = 0 /\ loopAgents' = <<>> /\ ai' = 1 /\ ss' = 0 /\ isDead' = FALSE
    /\ frameSnapshot' = <<>> /\ subLog' = <<>> /\ termLog' = <<>>
    /\ UNCHANGED flowWriter
    /\ pc' = "spawnEcc"
    /\ UNCHANGED <<viewVars, debugVars,
                   inputVars, fieldVars, outVars, mi, rngPos, flowGrid>>

\* the per-month declarations at the top of the loop body
MonthBegin ==
    /\ pc = "month"
    /\ mi <= Len(targetMonths)
    /\ finishedLines' = <<>> /\ impactResults' = <<>> /\ impactPointsTemp' = <<>>
    /\ flowGrid' = <<>>
    /\ debugFrames' = <<>>
    /\ eccAgents' = <<>> /\ agentPoints' = <<>> /\ ecAgents' = <<>> /\ ecPoints' = <<>>
    /\ nextAgentId' = 0
    /\ stepsUsedECC' = 0 /\ maxStepsEC' = 0 /\ startStepPhase2' = 0
    /\ step' = 0 /\ loopAgents' = <<>> /\ ai' = 1 /\ ss' = 0 /\ isDead' = FALSE
    /\ frameSnapshot' = <<>> /\ subLog' = <<>> /\ termLog' = <<>>
    /\ flowWriter' = <<>>
    /\ pc' = "spawnEcc"
    /\ UNCHANGED <<viewVars, debugVars,
                   inputVars, fieldVars, outVars, mi, rngPos>>

----------------------------------------------------------------------------
(* ocean.ts, PASS 1 *)

ProdSpawnEcc ==
    /\ pc = "spawnEcc" /\ variant = "prod"
    /\ eccAgents' = SpawnEccFrom(0, <<>>, <<>>)
    /\ nextAgentId' = Len(eccAgents')
    /\ agentPoints' = InitPoints(eccAgents')
    /\ step' = 0
    /\ pc' = "eccLoop"
    /\ UNCHANGED <<viewVars, debugVars,
                   inputVars, fieldVars, finishedLines, impactResults, impactPointsTemp,
                   flowGrid, ecAgents, ecPoints, stepsUsedECC, maxStepsEC, startStepPhase2,
                   debugFrames, loopAgents, ai, ss, isDead, frameSnapshot, subLog, termLog, flowWriter,
                   outVars, mi, rngPos>>

\* faulty variant of ProdEccStepBegin: the Phase-1 loop is left after three steps,
\* whatever the budget and whoever is still active
ProdEccStepBeginEarlyExit ==
    /\ pc = "eccLoop" /\ variant = "prod"
    /\ IF step < 3 /\ ActiveIds(eccAgents) # <<>>
       THEN /\ loopAgents' = ActiveIds(eccAgents)
            /\ ai' = 1
            /\ pc' = "eccAgent"
       ELSE /\ pc' = "eccEmit"
            /\ UNCHANGED <<loopAgents, ai>>
    /\ UNCHANGED <<viewVars, debugVars,
                   inputVars, fieldVars, monthVars, step, ss, isDead, frameSnapshot, subLog,
                   termLog, flowWriter, outVars, mi, rngPos>>

\* the head of the for-step loop: the bound, the activeAgents filter, the early break
ProdEccStepBegin ==
    /\ pc = "eccLoop" /\ variant = "prod"
    /\ IF step < phys.oceanStreamlineSteps /\ ActiveIds(eccAgents) # <<>>
       THEN /\ loopAgents' = ActiveIds(eccAgents)
            /\ ai' = 1
            /\ pc' = "eccAgent"
       ELSE /\ pc' = "eccEmit"
            /\ UNCHANGED <<loopAgents, ai>>
    /\ UNCHANGED <<viewVars, debugVars,
                   inputVars, fieldVars, monthVars, step, ss, isDead, frameSnapshot, subLog,
                   termLog, flowWriter, outVars, mi, rngPos>>

Terminated(pass, id, cause) == [pass |-> pass, id |-> id, cause |-> cause]

\* the pruning guard and the reset of isDead, before the sub-step loop
ProdEccAgentBegin ==
    /\ pc = "eccAgent" /\ variant = "prod"
    /\ ai <= Len(loopAgents)
    /\ LET k == PosOf(eccAgents, loopAgents[ai], 1)
           agent == eccAgents[k]
           pr == updateAndCheckPruning(flowGrid, agent.x, agent.y, agent.vx, agent.vy)
       IN IF Len(agentPoints[agent.id]) > 5
          THEN /\ flowGrid' = pr.flow
               /\ IF pr.pruned
                  THEN /\ eccAgents' = [eccAgents EXCEPT ![k].active = FALSE]
                       /\ termLog' = Append(termLog, Terminated("ECC", agent.id, "Pruned"))
                       /\ ai' = ai + 1
                       /\ pc' = "eccAgent"
                  ELSE /\ pc' = "eccSub"
                       /\ UNCHANGED <<eccAgents, termLog, ai>>
          ELSE /\ pc' = "eccSub"
               /\ UNCHANGED <<flowGrid, eccAgents, termLog, ai>>
    /\ flowWriter' = WrittenBy(flowGrid', loopAgents[ai])
    /\ isDead' = FALSE /\ ss' = 0 /\ subLog' = <<>>
    /\ UNCHANGED <<viewVars, debugVars,
                   inputVars, fieldVars, finishedLines, impactResults, impactPointsTemp,
                   agentPoints, ecAgents, ecPoints, nextAgentId, stepsUsedECC, maxStepsEC,
                   startStepPhase2, debugFrames, step, loopAgents, frameSnapshot, outVars,
                   mi, rngPos>>

LogEntry(r) ==
    [branch |-> r.branch, distOld |-> r.distOld,
     distAfter |-> getEnvironment(r.agent.x, r.agent.y).dist, cause |-> r.cause,
     speed |-> r.speed, bisection |-> r.bisection]

\* the effect of one sub-step r of the agent at position k of eccAgents
EccApply(k, r, next) ==
    /\ eccAgents' = [eccAgents EXCEPT ![k] = r.agent]
    /\ impactResults' = impactResults \o r.impacts
    /\ impactPointsTemp' = impactPointsTemp \o r.spawns
    /\ diagnostics' = diagnostics \o r.diags
    /\ subLog' = Append(subLog, LogEntry(r))
    /\ termLog' = IF r.cause # "" THEN Append(termLog, Terminated("ECC", r.agent.id, r.cause))
                  ELSE termLog
    /\ isDead' = r.dead
    /\ ss' = ss + 1
    /\ UNCHANGED flowWriter
    /\ pc' = IF r.dead \/ ss + 1 = SUB_STEPS THEN next ELSE pc

\* faulty variant of ProdEccSub: getEnvironment keeps the distance it interpolated in the
\* cell of the collision field the agent stands on
ProdEccSubWriteThrough ==
    /\ pc = "eccSub" /\ variant = "prod"
    /\ EccApply(PosOf(eccAgents, loopAgents[ai], 1),
                ProdEccSubStep(eccAgents[PosOf(eccAgents, loopAgents[ai], 1)]), "eccAgentEnd")
    /\ collisionField' =
           [collisionField EXCEPT
               ![getIdx(Floor(eccAgents[PosOf(eccAgents, loopAgents[ai], 1)].x),
                        Floor(eccAgents[PosOf(eccAgents, loopAgents[ai], 1)].y))] =
                   getEnvironment(eccAgents[PosOf(eccAgents, loopAgents[ai], 1)].x,
                                  eccAgents[PosOf(eccAgents, loopAgents[ai], 1)].y).dist]
    /\ UNCHANGED <<viewVars, debugVars,
                   inputVars, distGradX, distGradY, collisionMask, targetMonths, iter,
                   fieldBefore, finishedLines, flowGrid, agentPoints, ecAgents,
                   ecPoints, nextAgentId, stepsUsedECC, maxStepsEC, startStepPhase2,
                   debugFrames, step, loopAgents, ai, frameSnapshot, streamlinesByMonth,
                   impactsByMonth, outcome, collectedDebugData, mi, rngPos>>

ProdEccSub ==
    /\ pc = "eccSub" /\ variant = "prod"
    /\ EccApply(PosOf(eccAgents, loopAgents[ai], 1),
                ProdEccSubStep(eccAgents[PosOf(eccAgents, loopAgents[ai], 1)]), "eccAgentEnd")
    /\ UNCHANGED <<viewVars, debugVars,
                   inputVars, fieldVars, finishedLines, flowGrid, agentPoints, ecAgents,
                   ecPoints, nextAgentId, stepsUsedECC, maxStepsEC, startStepPhase2,
                   debugFrames, step, loopAgents, ai, frameSnapshot, streamlinesByMonth,
                   impactsByMonth, outcome, collectedDebugData, mi, rngPos>>

\* faulty variant of ProdEccAgentEnd: `if (isDead) continue` is missing, the sample is
\* pushed for an agent that terminated in this step too
ProdEccAgentEndNoContinue ==
    /\ pc = "eccAgentEnd" /\ variant = "prod"
    /\ LET agent == eccAgents[PosOf(eccAgents, loopAgents[ai], 1)]
       IN agentPoints' = [agentPoints EXCEPT ![agent.id] = Append(@, Point(agent))]
    /\ ai' = ai + 1
    /\ pc' = "eccAgent"
    /\ UNCHANGED <<viewVars, debugVars,
                   inputVars, fieldVars, finishedLines, impactResults, impactPointsTemp,
                   flowGrid, eccAgents, ecAgents, ecPoints, nextAgentId, stepsUsedECC,
                   maxStepsEC, startStepPhase2, debugFrames, step, loopAgents, ss, isDead,
                   frameSnapshot, subLog, termLog, flowWriter, outVars, mi, rngPos>>

\* if (isDead) continue; agentPoints[agent.id].push(...)
ProdEccAgentEnd ==
    /\ pc = "eccAgentEnd" /\ variant = "prod"
    /\ LET agent == eccAgents[PosOf(eccAgents, loopAgents[ai], 1)]
       IN agentPoints' = IF isDead THEN agentPoints
                         ELSE [agentPoints EXCEPT ![agent.id] = Append(@, Point(agent))]
    /\ ai' = ai + 1
    /\ pc' = "eccAgent"
    /\ UNCHANGED <<viewVars, debugVars,
                   inputVars, fieldVars, finishedLines, impactResults, impactPointsTemp,
                   flowGrid, eccAgents, ecAgents, ecPoints, nextAgentId, stepsUsedECC,
                   maxStepsEC, startStepPhase2, debugFrames, step, loopAgents, ss, isDead,
                   frameSnapshot, subLog, termLog, flowWriter, outVars, mi, rngPos>>

ProdEccStepEnd ==
    /\ pc = "eccAgent" /\ variant = "prod"
    /\ ai > Len(loopAgents)
    /\ step' = step + 1
    /\ pc' = "eccLoop"
    /\ UNCHANGED <<viewVars, debugVars,
                   inputVars, fieldVars, monthVars, loopAgents, ai, ss, isDead, frameSnapshot,
                   subLog, termLog, flowWriter, outVars, mi, rngPos>>

ProdEccEmit ==
    /\ pc = "eccEmit" /\ variant = "prod"
    /\ finishedLines' = PushLines(finishedLines, eccAgents, agentPoints, 1)
    /\ pc' = "ecSpawn"
    /\ UNCHANGED <<viewVars, debugVars,
                   inputVars, fieldVars, impactResults, impactPointsTemp, flowGrid, eccAgents,
                   agentPoints, ecAgents, ecPoints, nextAgentId, stepsUsedECC, maxStepsEC,
                   startStepPhase2, debugFrames, loopVars, outVars, mi, rngPos>>

----------------------------------------------------------------------------
(* ocean.ts, PASS 2 *)

\* two agents per spawn point: EC_N then EC_S, ids counted up from firstId
RECURSIVE ProdEcAgentsFrom(_, _, _)
ProdEcAgentsFrom(ips, i, firstId) ==
    IF i > Len(ips) THEN <<>>
    ELSE LET ip == ips[i]
             base == [active |-> TRUE, x |-> ip.x, y |-> ip.y,
                      vx |-> -RDiv(phys.oceanBaseSpeed * 5, 10), strength |-> 2 * SC]
         IN << base @@ [id |-> firstId + 2 * (i - 1), vy |-> -phys.oceanEcPolewardDrift,
                        type |-> "EC_N"],
               base @@ [id |-> firstId + 2 * (i - 1) + 1, vy |-> phys.oceanEcPolewardDrift,
                        type |-> "EC_S"] >>
            \o ProdEcAgentsFrom(ips, i + 1, firstId)

ProdSpawnEc ==
    /\ pc = "ecSpawn" /\ variant = "prod"
    /\ ecAgents' = ProdEcAgentsFrom(impactPointsTemp, 1, 0)
    /\ nextAgentId' = Len(ecAgents')
    /\ ecPoints' = InitPoints(ecAgents')
    /\ step' = 0
    /\ pc' = "ecLoop"
    /\ UNCHANGED <<viewVars, debugVars,
                   inputVars, fieldVars, finishedLines, impactResults, impactPointsTemp,
                   flowGrid, eccAgents, agentPoints, stepsUsedECC, maxStepsEC, startStepPhase2,
                   debugFrames, loopAgents, ai, ss, isDead, frameSnapshot, subLog, termLog, flowWriter,
                   outVars, mi, rngPos>>

ProdEcStepBegin ==
    /\ pc = "ecLoop" /\ variant = "prod"
    /\ IF step < phys.oceanStreamlineSteps /\ ActiveIds(ecAgents) # <<>>
       THEN /\ loopAgents' = ActiveIds(ecAgents)
            /\ ai' = 1
            /\ pc' = "ecAgent"
       ELSE /\ pc' = "ecEmit"
            /\ UNCHANGED <<loopAgents, ai>>
    /\ UNCHANGED <<viewVars, debugVars,
                   inputVars, fieldVars, monthVars, step, ss, isDead, frameSnapshot, subLog,
                   termLog, flowWriter, outVars, mi, rngPos>>

\* the pruning guard reads agentPoints, the Phase-1 array, at the EC agent's id
ProdEcPruneGuard(agent) == agent.id \in DOMAIN agentPoints /\ Len(agentPoints[agent.id]) > 5

ProdEcAgentBegin ==
    /\ pc = "ecAgent" /\ variant = "prod"
    /\ ai <= Len(loopAgents)
    /\ LET k == PosOf(ecAgents, loopAgents[ai], 1)
           agent == ecAgents[k]
           pr == updateAndCheckPruning(flowGrid, agent.x, agent.y, agent.vx, agent.vy)
       IN IF ProdEcPruneGuard(agent)
          THEN /\ flowGrid' = pr.flow
               /\ IF pr.pruned
                  THEN /\ ecAgents' = [ecAgents EXCEPT ![k].active = FALSE]
                       /\ termLog' = Append(termLog, Terminated("EC", agent.id, "Pruned"))
                       /\ ai' = ai + 1
                       /\ pc' = "ecAgent"
                  ELSE /\ pc' = "ecSub"
                       /\ UNCHANGED <<ecAgents, termLog, ai>>
          ELSE /\ pc' = "ecSub"
               /\ UNCHANGED <<flowGrid, ecAgents, termLog, ai>>
    /\ flowWriter' = WrittenBy(flowGrid', loopAgents[ai])
    /\ isDead' = FALSE /\ ss' = 0 /\ subLog' = <<>>
    /\ UNCHANGED <<viewVars, debugVars,
                   inputVars, fieldVars, finishedLines, impactResults, impactPointsTemp,
                   eccAgents, agentPoints, ecPoints, nextAgentId, stepsUsedECC, maxStepsEC,
                   startStepPhase2, debugFrames, step, loopAgents, frameSnapshot, outVars,
                   mi, rngPos>>

\* the effect of one sub-step r of the agent at position k of ecAgents
EcApply(k, r, next) ==
    /\ ecAgents' = [ecAgents EXCEPT ![k] = r.agent]
    /\ impactResults' = impactResults \o r.impacts
    /\ diagnostics' = diagnostics \o r.diags
    /\ rngPos' = rngPos + r.draws
    /\ subLog' = Append(subLog, LogEntry(r))
    /\ termLog' = IF r.cause # "" THEN Append(termLog, Terminated("EC", r.agent.id, r.cause))
                  ELSE termLog
    /\ isDead' = r.dead
    /\ ss' = ss + 1
    /\ UNCHANGED flowWriter
    /\ pc' = IF r.dead \/ ss + 1 = SUB_STEPS THEN next ELSE pc

\* faulty variant of ProdEcSub: the trajectory sample is pushed at the end of every
\* sub-step
ProdEcSubSampled ==
    /\ pc = "ecSub" /\ variant = "prod"
    /\ EcApply(PosOf(ecAgents, loopAgents[ai], 1),
               ProdEcSubStep(ecAgents[PosOf(ecAgents, loopAgents[ai], 1)], NextRandom),
               "ecAgentEnd")
    /\ ecPoints' = [ecPoints EXCEPT ![loopAgents[ai]] =
                        Append(@, Point(ecAgents'[PosOf(ecAgents, loopAgents[ai], 1)]))]
    /\ UNCHANGED <<viewVars, debugVars,
                   inputVars, fieldVars, finishedLines, impactPointsTemp, flowGrid, eccAgents,
                   agentPoints, nextAgentId, stepsUsedECC, maxStepsEC,
                   startStepPhase2, debugFrames, step, loopAgents, ai, frameSnapshot,
                   streamlinesByMonth, impactsByMonth, outcome, collectedDebugData, mi>>

ProdEcSub ==
    /\ pc = "ecSub" /\ variant = "prod"
    /\ EcApply(PosOf(ecAgents, loopAgents[ai], 1),
               ProdEcSubStep(ecAgents[PosOf(ecAgents, loopAgents[ai], 1)], NextRandom),
               "ecAgentEnd")
    /\ UNCHANGED <<viewVars, debugVars,
                   inputVars, fieldVars, finishedLines, impactPointsTemp, flowGrid, eccAgents,
                   agentPoints, ecPoints, nextAgentId, stepsUsedECC, maxStepsEC,
                   startStepPhase2, debugFrames, step, loopAgents, ai, frameSnapshot,
                   streamlinesByMonth, impactsByMonth, outcome, collectedDebugData, mi>>

ProdEcAgentEnd ==
    /\ pc = "ecAgentEnd" /\ variant = "prod"
    /\ LET agent == ecAgents[PosOf(ecAgents, loopAgents[ai], 1)]
       IN ecPoints' = IF isDead THEN ecPoints
                      ELSE [ecPoints EXCEPT ![agent.id] = Append(@, Point(agent))]
    /\ ai' = ai + 1
    /\ pc' = "ecAgent"
    /\ UNCHANGED <<viewVars, debugVars,
                   inputVars, fieldVars, finishedLines, impactResults, impactPointsTemp,
                   flowGrid, eccAgents, agentPoints, ecAgents, nextAgentId, stepsUsedECC,
                   maxStepsEC, startStepPhase2, debugFrames, step, loopAgents, ss, isDead,
                   frameSnapshot, subLog, termLog, flowWriter, outVars, mi, rngPos>>

ProdEcStepEnd ==
    /\ pc = "ecAgent" /\ variant = "prod"
    /\ ai > Len(loopAgents)
    /\ step' = step + 1
    /\ pc' = "ecLoop"
    /\ UNCHANGED <<viewVars, debugVars,
                   inputVars, fieldVars, monthVars, loopAgents, ai, ss, isDead, frameSnapshot,
                   subLog, termLog, flowWriter, outVars, mi, rngPos>>

\* arr[k] = v on a sparse array
SetAt(arr, k, v) == [j \in DOMAIN arr \cup {k} |-> IF j = k THEN v ELSE arr[j]]

\* the EC streamlines, then streamlinesByMonth[m] and impactsByMonth[m]
ProdEcEmit ==
    /\ pc = "ecEmit" /\ variant = "prod"
    /\ finishedLines' = PushLines(finishedLines, ecAgents, ecPoints, 1)
    /\ streamlinesByMonth' = SetAt(streamlinesByMonth, m, finishedLines')
    /\ impactsByMonth' = SetAt(impactsByMonth, m, impactResults)
    /\ mi' = mi + 1
    /\ pc' = "month"
    /\ UNCHANGED <<viewVars, debugVars,
                   inputVars, fieldVars, impactResults, impactPointsTemp, flowGrid, eccAgents,
                   agentPoints, ecAgents, ecPoints, nextAgentId, stepsUsedECC, maxStepsEC,
                   startStepPhase2, debugFrames, loopVars, diagnostics, collectedDebugData,
                   outcome, rngPos>>

\* for (m = 0; m < 12; m++) if (m !== 0 && m !== 6) { ... = [] }; return
ProdReturn ==
    /\ pc = "month" /\ variant = "prod"
    /\ mi > Len(targetMonths)
    /\ streamlinesByMonth' = [j \in 0 .. 11 |-> IF j # 0 /\ j # 6 THEN <<>> ELSE streamlinesByMonth[j]]
    /\ impactsByMonth' = [j \in 0 .. 11 |-> IF j # 0 /\ j # 6 THEN <<>> ELSE impactsByMonth[j]]
    /\ outcome' = "returned"
    /\ pc' = "done"
    /\ UNCHANGED <<viewVars, debugVars,
                   inputVars, fieldVars, monthVars, loopVars, diagnostics, collectedDebugData,
                   mi, rngPos>>

----------------------------------------------------------------------------
(* Unified engine (part_004): helpers *)

HISTORY_SIZE == 12
\* STAGNATION_THRESHOLD = 0.3 grid cells, fixed-point
STAGNATION_THRESHOLD == 30

\* phys.oceanStreamlineSteps || 500
BASE_MAX_STEPS == IF phys.oceanStreamlineSteps = 0 THEN 500 ELSE phys.oceanStreamlineSteps

\* const isDebugRun = (debugMonth === m)
isDebugRun == debugMonth = m

\* Math.cos of a latitude in degrees (fixed-point in, fixed-point out), by the
\* rational approximation (32400 - 4 d^2) / (32400 + d^2), d taken in tenths of a degree
CosTenths(d) == RDiv((3240000 - 4 * d * d) * SC, 3240000 + d * d)
Cos(lat) == IF Abs(lat) > 180 * SC THEN -SC ELSE CosTenths(RDiv(lat, 10))

\* Math.max(0.1, 2 * PI * radius * cos(latRad) / cols), in tenths of a km
KmPerCell(y) ==
    Max(1, RDiv(RDiv(RDiv(planet.radius * 710, 113) * Cos(getLatFromRow(y)), SC) * 10, cols))

\* offsetKm / kmPerCell with offsetKm = phys.oceanSpawnOffset || 1000, in cells
OffsetCells(y) ==
    RDiv((IF phys.oceanSpawnOffset = 0 THEN 1000 ELSE phys.oceanSpawnOffset) * 10 * SC,
         KmPerCell(y))

\* part_004 findSafeSpawnX: raycast west in whole-cell steps for dist < -30
RECURSIVE UniSpawnSearch(_, _, _, _, _)
UniSpawnSearch(i, currX, startX, y, offsetCells) ==
    IF i = 60 THEN startX - offsetCells
    ELSE IF getEnvironment(currX, y).dist < -30 * SC THEN currX - offsetCells
    ELSE UniSpawnSearch(i + 1, currX - SC, startX, y, offsetCells)

UniFindSafeSpawnX(startX, y) == UniSpawnSearch(0, startX, startX, y, OffsetCells(y))

\* the lifecycle fields the unified engine adds to an agent
Lifecycle == [state |-> "active", cause |-> "undefined", age |-> 0, history |-> <<>>]

\* agent.history.push({x, y}); if (length > HISTORY_SIZE) shift()
PushHistory(h, x, y) ==
    IF Len(h) + 1 > HISTORY_SIZE THEN Append(Tail(h), <<x, y>>) ELSE Append(h, <<x, y>>)

\* dxWrap + dy < STAGNATION_THRESHOLD against the oldest history entry
StuckAgainst(x, y, oldPos) ==
    Min(Abs(x - oldPos[1]), cols * SC - Abs(x - oldPos[1])) + Abs(y - oldPos[2])
        < STAGNATION_THRESHOLD

\* faulty variant of IsStuck: the test is made from 6 retained positions on
IsStuckFromSix(h, x, y) == Len(h) >= 6 /\ StuckAgainst(x, y, h[1])

\* if (agent.history.length === HISTORY_SIZE) { ... totalDist < STAGNATION_THRESHOLD }
IsStuck(h, x, y) == Len(h) = HISTORY_SIZE /\ StuckAgainst(x, y, h[1])

Snapshot(a) == [id |-> a.id, type |-> a.type, x |-> a.x, y |-> a.y, vx |-> a.vx, vy |-> a.vy,
                state |-> a.state, cause |-> a.cause]

Diagnostic(type, a) == [type |-> type, x |-> a.x, y |-> a.y, lat |-> getLatFromRow(a.y),
                        lon |-> getLonFromCol(a.x), age |-> a.age]

\* faulty variant of Kill: the agent is deactivated and its state set, the cause is not
KillSilently(a, state, cause) == [a EXCEPT !.active = FALSE, !.state = state]

Kill(a, state, cause) == [a EXCEPT !.active = FALSE, !.state = state, !.cause = cause]

----------------------------------------------------------------------------
(* PASS 1 of part_004: one sub-step of one ECC agent (lines 319-381) *)

UniEccMoved(agent, x, y, nvx, nvy, branch, distOld) ==
    SubResult([agent EXCEPT !.x = x, !.y = y, !.vx = nvx, !.vy = nvy], FALSE, branch, "", distOld)

\* a head-on impact (nvx > 0 and hgx > -0.2, entering the wall) or a slide (353-368)
UniEccHit(agent, nvx, nvy, distOld, b, hgx, n, vDotN) ==
    IF nvx > 0 /\ hgx > -20 /\ vDotN > 5
    THEN [SubResult(Kill(agent, "impact", "Coastal Impact"), TRUE, "impact", "Coastal Impact",
                    distOld)
            EXCEPT !.impacts = <<Impact(b.hitX, b.hitY, "ECC")>>,
                   !.spawns = <<SpawnPoint(UniFindSafeSpawnX(b.hitX, b.hitY), b.hitY)>>]
    ELSE UniEccMoved(agent, b.hitX - Mul(n.nx, 10), b.hitY - Mul(n.ny, 10),
                     nvx - Mul(vDotN, n.nx), nvy - Mul(vDotN, n.ny), "slide", distOld)

UniEccNormal(agent, nvx, nvy, distOld, b, hgx, n) ==
    UniEccHit(agent, nvx, nvy, distOld, b, hgx, n, Dot(nvx, nvy, n.nx, n.ny))

UniEccCross(agent, nvx, nvy, distOld, b, hEnv) ==
    UniEccNormal(agent, nvx, nvy, distOld, b, hEnv.gx, Normal(hEnv.gx, hEnv.gy))

UniEccRecover(agent, nvx, nvy, distOld, n, pushFactor) ==
    UniEccMoved(agent, agent.x - Mul(n.nx, pushFactor), agent.y - Mul(n.ny, pushFactor),
                nvx, nvy, "recovery", distOld)

UniEccCollide(agent, nvx, nvy, nextX, nextY, distOld, envNew, branch) ==
    IF branch = "cross"
    THEN UniEccCross(agent, nvx, nvy, distOld, Bisect(agent.x, agent.y, nextX, nextY),
                     getEnvironment(Bisect(agent.x, agent.y, nextX, nextY).hitX,
                                    Bisect(agent.x, agent.y, nextX, nextY).hitY))
    ELSE IF branch = "inside"
    THEN UniEccRecover(agent, nvx, nvy, distOld, Normal(envNew.gx, envNew.gy), envNew.dist + 10)
    ELSE UniEccMoved(agent, nextX, nextY, nvx, nvy, "clear", distOld)

UniEccProbe(agent, nvx, nvy, nextX, nextY, distOld, envNew) ==
    UniEccCollide(agent, nvx, nvy, nextX, nextY, distOld, envNew,
                  CollisionBranch(distOld, envNew.dist))

UniEccPropose(agent, nvx, nvy, nextX, nextY) ==
    UniEccProbe(agent, nvx, nvy, nextX, nextY,
                getEnvironment(agent.x, agent.y).dist, getEnvironment(nextX, nextY))

UniEccCandidate(agent, nvx, nvy) ==
    UniEccPropose(agent, nvx, nvy, agent.x + Mul(nvx, DT), agent.y + Mul(nvy, DT))

UniEccSubStep(agent) ==
    UniEccCandidate(agent, agent.vx + RDiv(phys.oceanBaseSpeed * 5, 100),
                    agent.vy + Mul(getRowFromLat(itcz(LonIdx(agent.x))) - agent.y,
                                   phys.oceanPatternForce))

----------------------------------------------------------------------------
(* PASS 2 of part_004: one sub-step of one EC agent (lines 493-616) *)

\* speed limit 3.0 x base and polar exit beyond 88 degrees (606-615)
UniEcLimit(agent, v, distOld) ==
    IF Abs(getLatFromRow(agent.y)) > 88 * SC
    THEN SubResult(Kill([agent EXCEPT !.vx = v[1], !.vy = v[2]], "dead", "Polar Exit"),
                   TRUE, "clear", "Polar Exit", distOld)
    ELSE SubResult([agent EXCEPT !.vx = v[1], !.vy = v[2]], FALSE, "clear", "", distOld)

UniEcClear(agent, nextX, nextY, nvx, nvy, distOld) ==
    UniEcLimit([agent EXCEPT !.x = nextX, !.y = nextY],
               ClampSpeed(nvx, nvy, Hypot(nvx, nvy), phys.oceanBaseSpeed * 3), distOld)

\* slide with friction 0.9, pushed 0.1 out of the wall; the sub-step ends here (588-599)
UniEcSlide(agent, nextX, nextY, nvx, nvy, distOld, n, vDotN) ==
    SubResult([agent EXCEPT !.x = nextX - Mul(n.nx, 10), !.y = nextY - Mul(n.ny, 10),
                            !.vx = RDiv((nvx - Mul(vDotN, n.nx)) * 9, 10),
                            !.vy = RDiv((nvy - Mul(vDotN, n.ny)) * 9, 10)],
              FALSE, "slide", "", distOld)

\* arrival on a west coast: the impact is recorded with probability 0.2 (575-586)
UniEcArrive(agent, rnd, nextX, nextY, distOld) ==
    [SubResult(Kill(agent, "dead", "Arrival (West Coast)"), TRUE, "arrival",
               "Arrival (West Coast)", distOld)
        EXCEPT !.impacts = IF rnd < 20 THEN <<Impact(nextX, nextY, "EC")>> ELSE <<>>,
               !.diags = IF agent.age < 20 THEN <<Diagnostic("EC_INFANT_DEATH", agent)>>
                         ELSE <<>>,
               !.draws = 1]

UniEcWall(agent, rnd, nextX, nextY, nvx, nvy, distOld, n) ==
    IF nvx < -10 /\ n.nx < -20
    THEN UniEcArrive(agent, rnd, nextX, nextY, distOld)
    ELSE UniEcSlide(agent, nextX, nextY, nvx, nvy, distOld, n, Dot(nvx, nvy, n.nx, n.ny))

UniEcProbe(agent, rnd, nextX, nextY, nvx, nvy, distOld, envNew) ==
    IF envNew.dist > 0
    THEN UniEcWall(agent, rnd, nextX, nextY, nvx, nvy, distOld, Normal(envNew.gx, envNew.gy))
    ELSE UniEcClear(agent, nextX, nextY, nvx, nvy, distOld)

UniEcPropose(agent, rnd, nextX, nextY, nvx, nvy, distOld) ==
    UniEcProbe(agent, rnd, nextX, nextY, nvx, nvy, distOld, getEnvironment(nextX, nextY))

UniEcAccelerate(agent, rnd, nvx, nvy, distOld) ==
    UniEcPropose(agent, rnd, agent.x + Mul(nvx, DT), agent.y + Mul(nvy, DT), nvx, nvy, distOld)

\* crawling along the wall tangent that points toward the target row (515-538)
UniEcCrawlAlong(agent, rnd, n, tx, ty, crawlSpeed, distOld) ==
    UniEcAccelerate([agent EXCEPT !.state = "crawling"], rnd,
                    agent.vx + RDiv((Mul(tx, crawlSpeed) - agent.vx) * 2, 10) - RDiv(n.nx, 10),
                    agent.vy + RDiv((Mul(ty, crawlSpeed) - agent.vy) * 2, 10) - RDiv(n.ny, 10),
                    distOld)

\* dot1 > dot2 picks the tangent (-ny, nx), otherwise (ny, -nx)
UniEcCrawl(agent, rnd, targetY, env, n) ==
    IF n.len > 0
    THEN IF n.nx * (IF targetY - agent.y > 0 THEN 1 ELSE -1)
              > -n.nx * (IF targetY - agent.y > 0 THEN 1 ELSE -1)
         THEN UniEcCrawlAlong(agent, rnd, n, -n.ny, n.nx, RDiv(phys.oceanBaseSpeed * 12, 10),
                              env.dist)
         ELSE UniEcCrawlAlong(agent, rnd, n, n.ny, -n.nx, RDiv(phys.oceanBaseSpeed * 12, 10),
                              env.dist)
    ELSE UniEcAccelerate([agent EXCEPT !.state = "crawling"], rnd, agent.vx,
                         agent.vy + RDiv((targetY - agent.y) * 5, 100), env.dist)

\* flowing: westward relaxation, PD control, coastal repulsion 0.5 * (1 - dist / -60)
UniEcFlow(agent, rnd, targetY, env, n, repulse) ==
    UniEcAccelerate([agent EXCEPT !.state = "active"], rnd,
                    agent.vx + RDiv((-phys.oceanBaseSpeed - agent.vx) * 5, 100)
                             - (IF repulse THEN Mul(n.nx, RDiv(50 * (60 * SC + env.dist), 60 * SC))
                                ELSE 0),
                    agent.vy + Mul(targetY - agent.y, phys.oceanEcPatternForce)
                             - Mul(agent.vy, phys.oceanEcDamping)
                             - (IF repulse THEN Mul(n.ny, RDiv(50 * (60 * SC + env.dist), 60 * SC))
                                ELSE 0),
                    env.dist)

\* isTrappedOnWestCoast && isFarFromTarget selects crawling (506-514)
UniEcMode(agent, rnd, targetLat, env, n) ==
    IF env.dist > -60 * SC /\ env.gx > -20 /\ Abs(getLatFromRow(agent.y) - targetLat) > 2 * SC
    THEN UniEcCrawl(agent, rnd, getRowFromLat(targetLat), env, n)
    ELSE UniEcFlow(agent, rnd, getRowFromLat(targetLat), env, n,
                   env.dist > -60 * SC /\ n.len > 0)

UniEcSense(agent, rnd, targetLat, env) ==
    UniEcMode(agent, rnd, targetLat, env, Normal(env.gx, env.gy))

\* rnd: the value Math.random returns if this sub-step draws one
UniEcSubStep(agent, rnd) ==
    UniEcSense(agent, rnd,
               IF agent.type = "EC_N" THEN itcz(LonIdx(agent.x)) + phys.oceanEcLatGap
                                      ELSE itcz(LonIdx(agent.x)) - phys.oceanEcLatGap,
               getEnvironment(agent.x, agent.y))

----------------------------------------------------------------------------
(* part_004, PASS 1 *)

\* what the part of the agent loop before the sub-steps decides: the agent, the pruning
\* cache, where the loop goes next ("skip" = continue, "sub" = sub-steps, "end" = the
\* tail of the loop body), and what it records
BeginResult(a, fg, next, cause) ==
    [agent |-> a, flow |-> fg, next |-> next, cause |-> cause,
     impacts |-> <<>>, spawns |-> <<>>, diags |-> <<>>, snaps |-> <<>>]

\* faulty variant of UniEccStagnate: the stagnation impact is recorded but its spawn
\* point is not pushed to impactPointsTemp
UniEccStagnateNoSpawn(agent, fg) ==
    [BeginResult(Kill(agent, "impact", "Stagnation"), fg, "skip", "Stagnation")
        EXCEPT !.impacts = <<Impact(agent.x, agent.y, "ECC")>>,
               !.diags = IF agent.type = "ECC" THEN <<Diagnostic("ECC_STUCK", agent)>>
                         ELSE <<>>]

\* stagnation is treated as an impact: impact, spawn point and ECC_STUCK diagnostic (284-310)
UniEccStagnate(agent, fg) ==
    [BeginResult(Kill(agent, "impact", "Stagnation"), fg, "skip", "Stagnation")
        EXCEPT !.impacts = <<Impact(agent.x, agent.y, "ECC")>>,
               !.spawns = <<SpawnPoint(UniFindSafeSpawnX(agent.x, agent.y), agent.y)>>,
               !.diags = IF agent.type = "ECC" THEN <<Diagnostic("ECC_STUCK", agent)>>
                         ELSE <<>>]

UniEccPrune(agent, pr) ==
    IF pr.pruned
    THEN BeginResult(Kill(agent, "dead", "Merged/Pruned"), pr.flow, "end", "Merged/Pruned")
    ELSE BeginResult(agent, pr.flow, "sub", "")

\* if (agent.active && agentPoints[agent.id].length > 5) (312-316)
UniEccGuard(agent, fg, pts) ==
    IF Len(pts[agent.id]) > 5
    THEN UniEccPrune(agent, updateAndCheckPruning(fg, agent.x, agent.y, agent.vx, agent.vy))
    ELSE BeginResult(agent, fg, "sub", "")

UniEccCheck(agent, fg, pts) ==
    IF IsStuck(agent.history, agent.x, agent.y) THEN UniEccStagnate(agent, fg)
    ELSE UniEccGuard(agent, fg, pts)

\* lines 252-316; debug is isDebugRun
UniEccBegin(agent, fg, pts, debug) ==
    IF ~agent.active
    THEN [BeginResult(agent, fg, "skip", "")
            EXCEPT !.snaps = IF debug THEN <<Snapshot(agent)>> ELSE <<>>]
    ELSE UniEccCheck([agent EXCEPT !.history = PushHistory(@, agent.x, agent.y)], fg, pts)

UniSpawnEcc ==
    /\ pc = "spawnEcc" /\ variant = "uni"
    /\ eccAgents' = SpawnEccFrom(0, <<>>, Lifecycle)
    /\ nextAgentId' = Len(eccAgents')
    /\ agentPoints' = InitPoints(eccAgents')
    /\ stepsUsedECC' = 0
    /\ step' = 0
    /\ pc' = "eccLoop"
    /\ UNCHANGED <<viewVars, debugVars,
                   inputVars, fieldVars, finishedLines, impactResults, impactPointsTemp,
                   flowGrid, ecAgents, ecPoints, maxStepsEC, startStepPhase2,
                   debugFrames, loopAgents, ai, ss, isDead, frameSnapshot, subLog, termLog, flowWriter,
                   outVars, mi, rngPos>>

\* the head of the step loop: stepsUsedECC++, a new frameSnapshot, the early exit
UniEccStepBegin ==
    /\ pc = "eccLoop" /\ variant = "uni"
    /\ IF step < BASE_MAX_STEPS
       THEN /\ stepsUsedECC' = stepsUsedECC + 1
            /\ frameSnapshot' = <<>>
            /\ loopAgents' = AllIds(eccAgents)
            /\ ai' = 1
            /\ pc' = IF ActiveIds(eccAgents) = <<>> THEN "eccEmit" ELSE "eccAgent"
       ELSE /\ pc' = "eccEmit"
            /\ UNCHANGED <<stepsUsedECC, frameSnapshot, loopAgents, ai>>
    /\ UNCHANGED <<viewVars, debugVars,
                   inputVars, fieldVars, finishedLines, impactResults, impactPointsTemp,
                   flowGrid, eccAgents, agentPoints, ecAgents, ecPoints, nextAgentId,
                   maxStepsEC, startStepPhase2, debugFrames, step, ss, isDead, subLog,
                   termLog, flowWriter, outVars, mi, rngPos>>

\* the effect of the loop-body prefix r on the agent at position k of eccAgents
EccBeginApply(k, r) ==
    /\ eccAgents' = [eccAgents EXCEPT ![k] = r.agent]
    /\ flowGrid' = r.flow
    /\ flowWriter' = WrittenBy(r.flow, r.agent.id)
    /\ impactResults' = impactResults \o r.impacts
    /\ impactPointsTemp' = impactPointsTemp \o r.spawns
    /\ diagnostics' = diagnostics \o r.diags
    /\ frameSnapshot' = frameSnapshot \o r.snaps
    /\ termLog' = IF r.cause # "" THEN Append(termLog, Terminated("ECC", r.agent.id, r.cause))
                  ELSE termLog
    /\ ai' = IF r.next = "skip" THEN ai + 1 ELSE ai
    /\ pc' = IF r.next = "skip" THEN "eccAgent"
             ELSE IF r.next = "sub" THEN "eccSub" ELSE "eccAgentEnd"

UniEccAgentBegin ==
    /\ pc = "eccAgent" /\ variant = "uni"
    /\ ai <= Len(loopAgents)
    /\ EccBeginApply(PosOf(eccAgents, loopAgents[ai], 1),
                     UniEccBegin(eccAgents[PosOf(eccAgents, loopAgents[ai], 1)], flowGrid,
                                 agentPoints, isDebugRun))
    /\ isDead' = FALSE /\ ss' = 0 /\ subLog' = <<>>
    /\ UNCHANGED <<viewVars, debugVars,
                   inputVars, fieldVars, finishedLines, agentPoints, ecAgents, ecPoints,
                   nextAgentId, stepsUsedECC, maxStepsEC, startStepPhase2, debugFrames, step,
                   loopAgents, streamlinesByMonth, impactsByMonth, collectedDebugData,
                   outcome, mi, rngPos>>

UniEccSub ==
    /\ pc = "eccSub" /\ variant = "uni"
    /\ EccApply(PosOf(eccAgents, loopAgents[ai], 1),
                UniEccSubStep(eccAgents[PosOf(eccAgents, loopAgents[ai], 1)]), "eccAgentEnd")
    /\ UNCHANGED <<viewVars, debugVars,
                   inputVars, fieldVars, finishedLines, flowGrid, agentPoints, ecAgents,
                   ecPoints, nextAgentId, stepsUsedECC, maxStepsEC, startStepPhase2,
                   debugFrames, step, loopAgents, ai, frameSnapshot, streamlinesByMonth,
                   impactsByMonth, outcome, collectedDebugData, mi, rngPos>>

\* agent.age++, the trajectory sample of a still active agent, the debug snapshot
AgentEndOf(a) == [a EXCEPT !.age = @ + 1]

UniEccAgentEnd ==
    /\ pc = "eccAgentEnd" /\ variant = "uni"
    /\ eccAgents' = [eccAgents EXCEPT ![PosOf(eccAgents, loopAgents[ai], 1)] = AgentEndOf(@)]
    /\ agentPoints' = IF eccAgents[PosOf(eccAgents, loopAgents[ai], 1)].active
                      THEN [agentPoints EXCEPT ![loopAgents[ai]] =
                               Append(@, Point(eccAgents[PosOf(eccAgents, loopAgents[ai], 1)]))]
                      ELSE agentPoints
    /\ frameSnapshot' = IF isDebugRun
                        THEN Append(frameSnapshot,
                                    Snapshot(eccAgents[PosOf(eccAgents, loopAgents[ai], 1)]))
                        ELSE frameSnapshot
    /\ ai' = ai + 1
    /\ pc' = "eccAgent"
    /\ UNCHANGED <<viewVars, debugVars,
                   inputVars, fieldVars, finishedLines, impactResults, impactPointsTemp,
                   flowGrid, ecAgents, ecPoints, nextAgentId, stepsUsedECC, maxStepsEC,
                   startStepPhase2, debugFrames, step, loopAgents, ss, isDead, subLog,
                   termLog, flowWriter, outVars, mi, rngPos>>

\* the tail of the step loop: the debug frame, the exit when every agent is inactive
UniEccStepEnd ==
    /\ pc = "eccAgent" /\ variant = "uni"
    /\ ai > Len(loopAgents)
    /\ debugFrames' = IF isDebugRun
                      THEN Append(debugFrames, [step |-> step, agents |-> frameSnapshot])
                      ELSE debugFrames
    /\ IF ActiveIds(eccAgents) = <<>>
       THEN pc' = "eccEmit" /\ step' = step
       ELSE pc' = "eccLoop" /\ step' = step + 1
    /\ UNCHANGED <<viewVars, debugVars,
                   inputVars, fieldVars, finishedLines, impactResults, impactPointsTemp,
                   flowGrid, eccAgents, agentPoints, ecAgents, ecPoints, nextAgentId,
                   stepsUsedECC, maxStepsEC, startStepPhase2, loopAgents, ai, ss, isDead,
                   frameSnapshot, subLog, termLog, flowWriter, outVars, mi, rngPos>>

UniEccEmit ==
    /\ pc = "eccEmit" /\ variant = "uni"
    /\ finishedLines' = PushLines(finishedLines, eccAgents, agentPoints, 1)
    /\ pc' = "ecSpawn"
    /\ UNCHANGED <<viewVars, debugVars,
                   inputVars, fieldVars, impactResults, impactPointsTemp, flowGrid, eccAgents,
                   agentPoints, ecAgents, ecPoints, nextAgentId, stepsUsedECC, maxStepsEC,
                   startStepPhase2, debugFrames, loopVars, outVars, mi, rngPos>>

----------------------------------------------------------------------------
(* part_004, PASS 2 *)

\* two agents per spawn point, EC_N then EC_S, ids continuing from firstId
RECURSIVE UniEcAgentsFrom(_, _, _)
UniEcAgentsFrom(ips, i, firstId) ==
    IF i > Len(ips) THEN <<>>
    ELSE << [id |-> firstId + 2 * (i - 1), active |-> TRUE, x |-> ips[i].x, y |-> ips[i].y,
             vx |-> 0, vy |-> -RDiv(phys.oceanBaseSpeed * 8, 10), strength |-> 2 * SC,
             type |-> "EC_N"] @@ Lifecycle,
            [id |-> firstId + 2 * (i - 1) + 1, active |-> TRUE, x |-> ips[i].x, y |-> ips[i].y,
             vx |-> 0, vy |-> RDiv(phys.oceanBaseSpeed * 8, 10), strength |-> 2 * SC,
             type |-> "EC_S"] @@ Lifecycle >>
         \o UniEcAgentsFrom(ips, i + 1, firstId)

\* faulty variant of UniSpawnEc: Phase 2 gets the whole budget a second time, whatever
\* Phase 1 used
UniSpawnEcWholeBudgetAgain ==
    /\ pc = "ecSpawn" /\ variant = "uni"
    /\ ecAgents' = UniEcAgentsFrom(impactPointsTemp, 1, nextAgentId)
    /\ nextAgentId' = nextAgentId + Len(ecAgents')
    /\ ecPoints' = InitPoints(ecAgents')
    /\ startStepPhase2' = Len(debugFrames)
    /\ maxStepsEC' = BASE_MAX_STEPS + BASE_MAX_STEPS
    /\ step' = 0
    /\ pc' = "ecLoop"
    /\ UNCHANGED <<viewVars, debugVars,
                   inputVars, fieldVars, finishedLines, impactResults, impactPointsTemp,
                   flowGrid, eccAgents, agentPoints, stepsUsedECC, debugFrames, loopAgents,
                   ai, ss, isDead, frameSnapshot, subLog, termLog, flowWriter, outVars, mi, rngPos>>

\* agents, ecPoints, startStepPhase2 and MAX_STEPS_EC (411-436)
UniSpawnEc ==
    /\ pc = "ecSpawn" /\ variant = "uni"
    /\ ecAgents' = UniEcAgentsFrom(impactPointsTemp, 1, nextAgentId)
    /\ nextAgentId' = nextAgentId + Len(ecAgents')
    /\ ecPoints' = InitPoints(ecAgents')
    /\ startStepPhase2' = Len(debugFrames)
    /\ maxStepsEC' = BASE_MAX_STEPS + (BASE_MAX_STEPS - stepsUsedECC)
    /\ step' = 0
    /\ pc' = "ecLoop"
    /\ UNCHANGED <<viewVars, debugVars,
                   inputVars, fieldVars, finishedLines, impactResults, impactPointsTemp,
                   flowGrid, eccAgents, agentPoints, stepsUsedECC, debugFrames, loopAgents,
                   ai, ss, isDead, frameSnapshot, subLog, termLog, flowWriter, outVars, mi, rngPos>>

UniEcStepBegin ==
    /\ pc = "ecLoop" /\ variant = "uni"
    /\ IF step < maxStepsEC
       THEN /\ frameSnapshot' = <<>>
            /\ loopAgents' = AllIds(ecAgents)
            /\ ai' = 1
            /\ pc' = IF ActiveIds(ecAgents) = <<>> THEN "ecEmit" ELSE "ecAgent"
       ELSE /\ pc' = "ecEmit"
            /\ UNCHANGED <<frameSnapshot, loopAgents, ai>>
    /\ UNCHANGED <<viewVars, debugVars,
                   inputVars, fieldVars, monthVars, step, ss, isDead, subLog, termLog, flowWriter,
                   outVars, mi, rngPos>>

\* faulty variant of UniEcPruneGuard: the guard reads the EC agent's own trajectory, so
\* that pruning is live outside a debug run and switched off inside one
UniEcPruneGuardOwnPoints(agent, pts, debug) ==
    agent.id \in DOMAIN ecPoints /\ Len(ecPoints[agent.id]) > 5 /\ ~debug

\* the pruning guard reads agentPoints, the Phase-1 array, at the EC agent's id, and is
\* switched off in a debug run (455)
UniEcPruneGuard(agent, pts, debug) ==
    agent.id \in DOMAIN pts /\ Len(pts[agent.id]) > 5 /\ ~debug

\* stagnation of an EC agent: an EC impact, no spawn point (480-490)
UniEcStagnate(agent, fg) ==
    [BeginResult(Kill(agent, "impact", "Stagnation"), fg, "skip", "Stagnation")
        EXCEPT !.impacts = <<Impact(agent.x, agent.y, "EC")>>]

UniEcCheck(agent, fg, cause) ==
    IF IsStuck(agent.history, agent.x, agent.y) THEN UniEcStagnate(agent, fg)
    ELSE BeginResult(agent, fg, IF agent.active THEN "sub" ELSE "end", cause)

\* history is updated whether or not the agent has just been pruned (462-465)
UniEcHistory(agent, fg, cause) ==
    UniEcCheck([agent EXCEPT !.history = PushHistory(@, agent.x, agent.y)], fg, cause)

UniEcPrune(agent, pr) ==
    IF pr.pruned THEN UniEcHistory(Kill(agent, "dead", "Merged/Pruned"), pr.flow, "Merged/Pruned")
    ELSE UniEcHistory(agent, pr.flow, "")

\* lines 446-490; debug is isDebugRun
UniEcBegin(agent, fg, pts, debug) ==
    IF ~agent.active
    THEN [BeginResult(agent, fg, "skip", "")
            EXCEPT !.snaps = IF debug THEN <<Snapshot(agent)>> ELSE <<>>]
    ELSE IF UniEcPruneGuard(agent, pts, debug)
    THEN UniEcPrune(agent, updateAndCheckPruning(fg, agent.x, agent.y, agent.vx, agent.vy))
    ELSE UniEcHistory(agent, fg, "")

\* the effect of the loop-body prefix r on the agent at position k of ecAgents
EcBeginApply(k, r) ==
    /\ ecAgents' = [ecAgents EXCEPT ![k] = r.agent]
    /\ flowGrid' = r.flow
    /\ flowWriter' = WrittenBy(r.flow, r.agent.id)
    /\ impactResults' = impactResults \o r.impacts
    /\ frameSnapshot' = frameSnapshot \o r.snaps
    /\ termLog' = IF r.cause # "" THEN Append(termLog, Terminated("EC", r.agent.id, r.cause))
                  ELSE termLog
    /\ ai' = IF r.next = "skip" THEN ai + 1 ELSE ai
    /\ pc' = IF r.next = "skip" THEN "ecAgent"
             ELSE IF r.next = "sub" THEN "ecSub" ELSE "ecAgentEnd"

UniEcAgentBegin ==
    /\ pc = "ecAgent" /\ variant = "uni"
    /\ ai <= Len(loopAgents)
    /\ EcBeginApply(PosOf(ecAgents, loopAgents[ai], 1),
                    UniEcBegin(ecAgents[PosOf(ecAgents, loopAgents[ai], 1)], flowGrid,
                               agentPoints, isDebugRun))
    /\ isDead' = FALSE /\ ss' = 0 /\ subLog' = <<>>
    /\ UNCHANGED <<viewVars, debugVars,
                   inputVars, fieldVars, finishedLines, impactPointsTemp, eccAgents,
                   agentPoints, ecPoints, nextAgentId, stepsUsedECC, maxStepsEC,
                   startStepPhase2, debugFrames, step, loopAgents, outVars, mi, rngPos>>

UniEcSub ==
    /\ pc = "ecSub" /\ variant = "uni"
    /\ EcApply(PosOf(ecAgents, loopAgents[ai], 1),
               UniEcSubStep(ecAgents[PosOf(ecAgents, loopAgents[ai], 1)], NextRandom),
               "ecAgentEnd")
    /\ UNCHANGED <<viewVars, debugVars,
                   inputVars, fieldVars, finishedLines, impactPointsTemp, flowGrid, eccAgents,
                   agentPoints, ecPoints, nextAgentId, stepsUsedECC, maxStepsEC,
                   startStepPhase2, debugFrames, step, loopAgents, ai, frameSnapshot,
                   streamlinesByMonth, impactsByMonth, outcome, collectedDebugData, mi>>

UniEcAgentEnd ==
    /\ pc = "ecAgentEnd" /\ variant = "uni"
    /\ ecAgents' = [ecAgents EXCEPT ![PosOf(ecAgents, loopAgents[ai], 1)] = AgentEndOf(@)]
    /\ ecPoints' = IF ecAgents[PosOf(ecAgents, loopAgents[ai], 1)].active
                      /\ loopAgents[ai] \in DOMAIN ecPoints
                   THEN [ecPoints EXCEPT ![loopAgents[ai]] =
                            Append(@, Point(ecAgents[PosOf(ecAgents, loopAgents[ai], 1)]))]
                   ELSE ecPoints
    /\ frameSnapshot' = IF isDebugRun
                        THEN Append(frameSnapshot,
                                    Snapshot(ecAgents[PosOf(ecAgents, loopAgents[ai], 1)]))
                        ELSE frameSnapshot
    /\ ai' = ai + 1
    /\ pc' = "ecAgent"
    /\ UNCHANGED <<viewVars, debugVars,
                   inputVars, fieldVars, finishedLines, impactResults, impactPointsTemp,
                   flowGrid, eccAgents, agentPoints, nextAgentId, stepsUsedECC, maxStepsEC,
                   startStepPhase2, debugFrames, step, loopAgents, ss, isDead, subLog,
                   termLog, flowWriter, outVars, mi, rngPos>>

UniEcStepEnd ==
    /\ pc = "ecAgent" /\ variant = "uni"
    /\ ai > Len(loopAgents)
    /\ debugFrames' = IF isDebugRun
                      THEN Append(debugFrames,
                                  [step |-> startStepPhase2 + step, agents |-> frameSnapshot])
                      ELSE debugFrames
    /\ IF ActiveIds(ecAgents) = <<>>
       THEN pc' = "ecEmit" /\ step' = step
       ELSE pc' = "ecLoop" /\ step' = step + 1
    /\ UNCHANGED <<viewVars, debugVars,
                   inputVars, fieldVars, finishedLines, impactResults, impactPointsTemp,
                   flowGrid, eccAgents, agentPoints, ecAgents, ecPoints, nextAgentId,
                   stepsUsedECC, maxStepsEC, startStepPhase2, loopAgents, ai, ss, isDead,
                   frameSnapshot, subLog, termLog, flowWriter, outVars, mi, rngPos>>

\* the EC streamlines, the debug data of a debug run, then the month's outputs (638-655)
UniEcEmit ==
    /\ pc = "ecEmit" /\ variant = "uni"
    /\ finishedLines' = PushLines(finishedLines, ecAgents, ecPoints, 1)
    /\ collectedDebugData' = IF isDebugRun
                             THEN [frames |-> debugFrames, collisionField |-> collisionField,
                                   width |-> cols, height |-> rows, itczLine |-> itczLines[m]]
                             ELSE collectedDebugData
    /\ streamlinesByMonth' = SetAt(streamlinesByMonth, m, finishedLines')
    /\ impactsByMonth' = SetAt(impactsByMonth, m, impactResults)
    /\ mi' = mi + 1
    /\ pc' = "month"
    /\ UNCHANGED <<viewVars, debugVars,
                   inputVars, fieldVars, impactResults, impactPointsTemp, flowGrid, eccAgents,
                   agentPoints, ecAgents, ecPoints, nextAgentId, stepsUsedECC, maxStepsEC,
                   startStepPhase2, debugFrames, loopVars, diagnostics, outcome, rngPos>>

\* faulty variant of UniReturn: the fill loop starts at month 1
UniReturnFillFromOne ==
    /\ pc = "month" /\ variant = "uni"
    /\ mi > Len(targetMonths)
    /\ streamlinesByMonth' = [j \in (1 .. 11) \cup DOMAIN streamlinesByMonth |->
                                 IF j \in DOMAIN streamlinesByMonth
                                 THEN streamlinesByMonth[j] ELSE <<>>]
    /\ impactsByMonth' = [j \in (1 .. 11) \cup DOMAIN streamlinesByMonth |->
                             IF j \in DOMAIN streamlinesByMonth
                             THEN impactsByMonth[j] ELSE <<>>]
    /\ outcome' = "returned"
    /\ pc' = "done"
    /\ UNCHANGED <<viewVars, debugVars,
                   inputVars, fieldVars, monthVars, loopVars, diagnostics, collectedDebugData,
                   mi, rngPos>>

\* for (m = 0; m < 12; m++) if (!streamlinesByMonth[m]) { ... = [] }; return
UniReturn ==
    /\ pc = "month" /\ variant = "uni"
    /\ mi > Len(targetMonths)
    /\ streamlinesByMonth' = [j \in 0 .. 11 |-> IF j \in DOMAIN streamlinesByMonth
                                                THEN streamlinesByMonth[j] ELSE <<>>]
    /\ impactsByMonth' = [j \in 0 .. 11 |-> IF j \in DOMAIN streamlinesByMonth
                                            THEN impactsByMonth[j] ELSE <<>>]
    /\ outcome' = "returned"
    /\ pc' = "done"
    /\ UNCHANGED <<viewVars, debugVars,
                   inputVars, fieldVars, monthVars, loopVars, diagnostics, collectedDebugData,
                   mi, rngPos>>

----------------------------------------------------------------------------
(* OceanDebugView.tsx: the debugger component.  Every action is one event with the
   re-render it causes and the effects that run after the commit.  A value that may be
   undefined or null is a sequence of length 0 or 1. *)

\* the oceanEcLatGap values of the physics objects the parent passes
EcGaps == {10 * SC, 20 * SC}
PhysProps == {[Headland.phys EXCEPT !.oceanEcLatGap = g] : g \in EcGaps}

\* the lengths of result.debugData.frames; no frame is pushed when no agent was spawned
FrameCounts == {0, 1, 2}

\* const activePhys = effectivePhys || phys
activePhys == IF propEffectivePhys # <<>> THEN propEffectivePhys[1] ELSE propPhys

\* result.debugData of computeOceanCurrents(grid, itczLines, p, config, planet, month):
\* collectedDebugData of part_004 167-175 (collisionField left out) with n frames;
\* callPhys is history: the physics parameters of the call
DebugDataOf(p, month, n) ==
    [frames |-> n, width |-> cols, height |-> rows, itczLine |-> itczLines[month],
     callPhys |-> p]

\* the rendering effect: nothing without data; else the map, the ITCZ line, the EC guide
\* lines at ITCZ +/- activePhys.oceanEcLatGap, and the agents of frames[currentStep]
RenderEffect(old, data, p, stepNow, showTargets) ==
    IF data = <<>> THEN old
    ELSE <<[data |-> data[1], frame |-> stepNow,
          gap |-> IF showTargets THEN <<p.oceanEcLatGap>> ELSE <<>>,
          ecN |-> IF showTargets
                  THEN [c \in DOMAIN data[1].itczLine |-> data[1].itczLine[c] + p.oceanEcLatGap]
                  ELSE <<>>,
          ecS |-> IF showTargets
                  THEN [c \in DOMAIN data[1].itczLine |-> data[1].itczLine[c] - p.oceanEcLatGap]
                  ELSE <<>>]>>

\* a pending timer: the values its callback closes over, and whether it is the timer of
\* the latest run of the recompute effect, the one the effect's cleanup holds
Timeout(p, month) == [phys |-> p, month |-> month, latest |-> TRUE]
IsSuperseded(t) == ~t.latest
Supersede(ts) == [k \in DOMAIN ts |-> [ts[k] EXCEPT !.latest = FALSE]]

\* return () => clearTimeout(timer): the timer of the latest run is cancelled, if pending
ClearTimeout(ts) == SelectSeq(ts, IsSuperseded)

\* faulty variant of RecomputeEffect: the effect returns no cleanup
RecomputeEffectNoCleanup(p, month) ==
    /\ loading' = TRUE
    /\ timer' = Append(Supersede(timer), Timeout(p, month))

\* the recompute effect: the cleanup of the previous run; setLoading(true); a new timer
\* whose callback closes over the active physics and the target month of this render
RecomputeEffect(p, month) ==
    /\ loading' = TRUE
    /\ timer' = Append(ClearTimeout(timer), Timeout(p, month))

\* ts without its k-th element
Without(ts, k) == SubSeq(ts, 1, k - 1) \o SubSeq(ts, k + 1, Len(ts))

ViewEngineIdle ==
    UNCHANGED <<fieldVars, monthVars, loopVars, outVars, mi, rngPos, pc, debugVars,
                variant, grid, config, itczLines, planet, randomDraws>>

\* the component is mounted: first render, then the recompute and rendering effects
ViewInit ==
    /\ Call("uni", Headland, FlatLine(12, 0), FlatLine(12, 10 * SC), 6, <<5>>)
    /\ InitRest
    /\ NoDebugCore
    /\ propPhys \in PhysProps
    /\ propEffectivePhys \in {<<>>} \cup {<<p>> : p \in PhysProps}
    /\ targetMonth = 6
    /\ debugData = <<>> /\ currentStep = 0 /\ isPlaying = FALSE
    /\ showOverlayECTargets = TRUE
    /\ loading = TRUE
    /\ timer = <<Timeout(activePhys, 6)>>
    /\ canvas = <<>>

\* the parent re-renders the component with other phys / effectivePhys props
ViewPropsChange ==
    \E p \in PhysProps, e \in {<<>>} \cup {<<q>> : q \in PhysProps} :
        /\ <<p, e>> # <<propPhys, propEffectivePhys>>
        /\ propPhys' = p /\ propEffectivePhys' = e
        /\ IF activePhys' # activePhys
           THEN RecomputeEffect(activePhys', targetMonth)
           ELSE UNCHANGED <<loading, timer>>
        /\ canvas' = RenderEffect(canvas, debugData, activePhys', currentStep,
                                  showOverlayECTargets)
        /\ UNCHANGED <<targetMonth, debugData, currentStep, isPlaying, showOverlayECTargets,
                       phys, debugMonth>>
        /\ ViewEngineIdle

\* onClick={() => setTargetMonth(0 | 6)}
ViewSetTargetMonth ==
    \E tm \in {0, 6} :
        /\ tm # targetMonth
        /\ targetMonth' = tm
        /\ RecomputeEffect(activePhys, tm)
        /\ canvas' = RenderEffect(canvas, debugData, activePhys, currentStep,
                                  showOverlayECTargets)
        /\ UNCHANGED <<propPhys, propEffectivePhys, debugData, currentStep, isPlaying,
                       showOverlayECTargets, phys, debugMonth>>
        /\ ViewEngineIdle

\* the timer callback: computeOceanCurrents with the captured values, setDebugData,
\* setCurrentStep(0), setIsPlaying(true), setLoading(false)
ViewTimerFires ==
    \E k \in DOMAIN timer :
        /\ phys' = timer[k].phys /\ debugMonth' = timer[k].month
        /\ \E n \in FrameCounts :
               debugData' = <<DebugDataOf(timer[k].phys, timer[k].month, n)>>
        /\ currentStep' = 0 /\ isPlaying' = TRUE /\ loading' = FALSE
        /\ timer' = Without(timer, k)
        /\ canvas' = RenderEffect(canvas, debugData', activePhys, 0, showOverlayECTargets)
        /\ UNCHANGED <<propPhys, propEffectivePhys, targetMonth, showOverlayECTargets>>
        /\ ViewEngineIdle

\* the playback interval: the next frame, or stop at the last one
ViewPlaybackTick ==
    /\ isPlaying /\ debugData # <<>>
    /\ IF currentStep >= debugData[1].frames - 1
       THEN isPlaying' = FALSE /\ UNCHANGED currentStep
       ELSE currentStep' = currentStep + 1 /\ UNCHANGED isPlaying
    /\ canvas' = RenderEffect(canvas, debugData, activePhys, currentStep',
                              showOverlayECTargets)
    /\ UNCHANGED <<propPhys, propEffectivePhys, targetMonth, debugData, loading,
                   showOverlayECTargets, timer, phys, debugMonth>>
    /\ ViewEngineIdle

\* the EC Targets checkbox
ViewToggleEcTargets ==
    /\ showOverlayECTargets' = ~showOverlayECTargets
    /\ canvas' = RenderEffect(canvas, debugData, activePhys, currentStep,
                              showOverlayECTargets')
    /\ UNCHANGED <<propPhys, propEffectivePhys, targetMonth, debugData, loading, currentStep,
                   isPlaying, timer, phys, debugMonth>>
    /\ ViewEngineIdle

\* the play / stop button: setIsPlaying(!isPlaying)
ViewTogglePlaying ==
    /\ isPlaying' = ~isPlaying
    /\ UNCHANGED <<propPhys, propEffectivePhys, targetMonth, debugData, loading, currentStep,
                   showOverlayECTargets, timer, canvas, phys, debugMonth>>
    /\ ViewEngineIdle

\* max of the range input: (debugData?.frames.length || 100) - 1
SliderMax == IF debugData = <<>> \/ debugData[1].frames = 0 THEN 99 ELSE debugData[1].frames - 1

\* the range input is moved: setIsPlaying(false); setCurrentStep(value)
ViewSeek ==
    \E value \in {0, 1, SliderMax} :
        /\ value <= SliderMax /\ value # currentStep
        /\ isPlaying' = FALSE /\ currentStep' = value
        /\ canvas' = RenderEffect(canvas, debugData, activePhys, value, showOverlayECTargets)
        /\ UNCHANGED <<propPhys, propEffectivePhys, targetMonth, debugData, loading,
                       showOverlayECTargets, timer, phys, debugMonth>>
        /\ ViewEngineIdle

ViewNext ==
    \/ ViewPropsChange \/ ViewSetTargetMonth \/ ViewTimerFires
    \/ ViewPlaybackTick \/ ViewToggleEcTargets \/ ViewTogglePlaying \/ ViewSeek

ViewSpec == ViewInit /\ [][ViewNext]_vars

----------------------------------------------------------------------------
(* runDebugSimulation (part_003 29-290), up to the end of PHASE 1.  Its collision field,
   getEnvironment, findSafeSpawnX and seeding loop (38-131) and the body of its sub-step
   loop (185-268) repeat ocean.ts 50-134, 179-211 and 236-359 statement for statement,
   so the operators of ocean.ts are used for them; what differs is modelled here. *)

\* agents.push({ id, active, x, y, vx, vy, type, age, stagnationCounter, lastX, lastY })
DebugAgent(c, id) ==
    [id |-> id, active |-> TRUE, x |-> c * SC, y |-> getRowFromLat(itcz(c)),
     vx |-> phys.oceanBaseSpeed, vy |-> 0, type |-> "ECC", age |-> 0,
     stagnationCounter |-> 0, lastX |-> c * SC, lastY |-> getRowFromLat(itcz(c))]

\* moveDist < 0.05 * TOTAL_DT ? stagnationCounter + 1 : 0, and lastX, lastY
StagnationCheck(agent) ==
    [agent EXCEPT
        !.stagnationCounter =
            IF (Abs(agent.x - agent.lastX) + Abs(agent.y - agent.lastY)) * 100 < 5 * TOTAL_DT
            THEN @ + 1 ELSE 0,
        !.lastX = agent.x, !.lastY = agent.y]

\* state and causeOfDeath as the sub-step loop of part_003 sets them
DebugStateOf(cause) ==
    IF cause = "Impact" THEN "impact" ELSE IF cause = "SpeedFloor" THEN "stuck"
    ELSE IF cause = "Deflection" THEN "dead" ELSE "active"
DebugCauseOf(cause) ==
    IF cause = "Impact" THEN "Coastal Impact" ELSE IF cause = "SpeedFloor" THEN "Zero Velocity"
    ELSE IF cause = "Deflection" THEN "Deflected too far" ELSE "undefined"

\* ecSpawns.push({ x: safeSpawnX, y: hitY })
DebugSpawnsOf(spawns) == [k \in 1 .. Len(spawns) |-> [x |-> spawns[k].x, y |-> spawns[k].y]]

DebugIdle ==
    UNCHANGED <<viewVars, inputVars, monthVars, outVars, mi, rngPos, loopAgents, isDead,
                subLog, termLog, flowWriter>>

\* the same grid, January ITCZ line, phys and config are passed to runDebugSimulation
\* once the production core has finished PASS 1 of January
CallDebugCore ==
    /\ pc = "ecSpawn" /\ variant = "prod" /\ mi = 1
    /\ variant' = "debug"
    /\ pc' = "dbgStart"
    /\ UNCHANGED <<viewVars, debugVars, grid, config, itczLines, phys, planet, debugMonth,
                   randomDraws, fieldVars, monthVars, loopVars, outVars, mi, rngPos>>

\* collision field, smoothing, gradients, ECC agents (38-131)
DebugSetup ==
    /\ pc = "dbgStart" /\ variant = "debug"
    /\ LET f == Smooth(RawField(grid, phys.oceanCollisionBuffer), phys.oceanSmoothing)
       IN /\ collisionField' = f
          /\ distGradX' = GradX(f)
          /\ distGradY' = GradY(f)
    /\ dbgAgents' = [k \in 1 .. Len(SelectSeq(ColsFrom(0), ShouldSpawn)) |->
                        DebugAgent(SelectSeq(ColsFrom(0), ShouldSpawn)[k], k - 1)]
    /\ allEcSpawns' = <<>> /\ frames' = <<>>
    /\ step' = 0
    /\ pc' = "dbgLoop"
    /\ UNCHANGED <<ecSpawns, dbgState, causeOfDeath, collisionMask, targetMonths, iter,
                   fieldBefore, ai, ss,
                   frameSnapshot>>
    /\ DebugIdle

\* for (step < MAX_STEPS): frameSnapshot = [], ecSpawns = []
DebugStepBegin ==
    /\ pc = "dbgLoop" /\ variant = "debug"
    /\ IF step < phys.oceanStreamlineSteps
       THEN /\ frameSnapshot' = <<>> /\ ecSpawns' = <<>>
            /\ ai' = 1
            /\ pc' = "dbgAgent"
       ELSE /\ pc' = "dbgPhase2"
            /\ UNCHANGED <<frameSnapshot, ecSpawns, ai>>
    /\ UNCHANGED <<dbgAgents, allEcSpawns, frames, dbgState, causeOfDeath, fieldVars, step, ss>>
    /\ DebugIdle

\* if (!agent.active) continue; the stagnation check (165-182)
DebugAgentBegin ==
    /\ pc = "dbgAgent" /\ variant = "debug"
    /\ ai <= Len(dbgAgents)
    /\ IF ~dbgAgents[ai].active
       THEN /\ ai' = ai + 1
            /\ UNCHANGED <<dbgAgents, dbgState, causeOfDeath, ss, pc>>
       ELSE /\ IF StagnationCheck(dbgAgents[ai]).stagnationCounter > 20
               THEN /\ dbgAgents' = [dbgAgents EXCEPT
                                        ![ai] = [StagnationCheck(@) EXCEPT !.active = FALSE]]
                    /\ dbgState' = "stuck"
                    /\ causeOfDeath' = "Stagnation (Low Velocity)"
                    /\ pc' = "dbgAgentEnd"
               ELSE /\ dbgAgents' = [dbgAgents EXCEPT ![ai] = StagnationCheck(@)]
                    /\ dbgState' = "active"
                    /\ causeOfDeath' = "undefined"
                    /\ pc' = "dbgSub"
            /\ ss' = 0
            /\ UNCHANGED ai
    /\ UNCHANGED <<ecSpawns, allEcSpawns, frames, fieldVars, step, frameSnapshot>>
    /\ DebugIdle

\* the effect of one sub-step r on the agent at position ai
DebugApply(r) ==
    /\ dbgAgents' = [dbgAgents EXCEPT ![ai] = r.agent]
    /\ ecSpawns' = ecSpawns \o DebugSpawnsOf(r.spawns)
    /\ dbgState' = IF r.cause # "" THEN DebugStateOf(r.cause) ELSE dbgState
    /\ causeOfDeath' = IF r.cause # "" THEN DebugCauseOf(r.cause) ELSE causeOfDeath
    /\ ss' = ss + 1
    /\ pc' = IF r.dead \/ ss + 1 = SUB_STEPS THEN "dbgAgentEnd" ELSE pc

\* one iteration of for (ss < SUB_STEPS) (185-268)
DebugSub ==
    /\ pc = "dbgSub" /\ variant = "debug"
    /\ DebugApply(ProdEccSubStep(dbgAgents[ai]))
    /\ UNCHANGED <<allEcSpawns, frames, fieldVars, step, ai, frameSnapshot>>
    /\ DebugIdle

\* frameSnapshot.push({ id, type, x, y, vx, vy, state, cause: causeOfDeath })
DebugAgentEnd ==
    /\ pc = "dbgAgentEnd" /\ variant = "debug"
    /\ frameSnapshot' = Append(frameSnapshot,
                               [id |-> dbgAgents[ai].id, type |-> dbgAgents[ai].type,
                                x |-> dbgAgents[ai].x, y |-> dbgAgents[ai].y,
                                vx |-> dbgAgents[ai].vx, vy |-> dbgAgents[ai].vy,
                                state |-> dbgState, cause |-> causeOfDeath])
    /\ ai' = ai + 1
    /\ pc' = "dbgAgent"
    /\ UNCHANGED <<debugVars, fieldVars, step, ss>>
    /\ DebugIdle

\* allEcSpawns.push(...ecSpawns); frames.push({ step, agents: frameSnapshot }); the loop
\* is left when no agent is active (276-289)
DebugStepEnd ==
    /\ pc = "dbgAgent" /\ variant = "debug"
    /\ ai > Len(dbgAgents)
    /\ allEcSpawns' = allEcSpawns \o ecSpawns
    /\ frames' = Append(frames, [step |-> step, agents |-> frameSnapshot])
    /\ IF ActiveIds(dbgAgents) = <<>>
       THEN pc' = "dbgPhase2" /\ UNCHANGED step
       ELSE pc' = "dbgLoop" /\ step' = step + 1
    /\ UNCHANGED <<dbgAgents, ecSpawns, dbgState, causeOfDeath, fieldVars, ai, ss,
                   frameSnapshot>>
    /\ DebugIdle

\* the worlds the two cores are compared on
PairInit ==
    /\ \/ \E l0 \in {0, 20 * SC} :
            Call("prod", Headland, FlatLine(12, l0), FlatLine(12, 0), NoMonth, <<5>>)
       \/ Call("prod", Channel, FlatLine(12, 0), FlatLine(12, 0), NoMonth, <<5>>)
       \/ Call("prod", Islet, FlatLine(12, 2250), FlatLine(12, 0), NoMonth, <<5>>)
       \/ Call("prod", OpenOcean, StepLine(64, 0, 60, 45 * SC), FlatLine(64, 0), NoMonth, <<5>>)
    /\ InitRest
    /\ NoView
    /\ NoDebugCore

PairNext ==
    \/ BuildCollisionField \/ MonthBegin
    \/ ProdSpawnEcc \/ ProdEccStepBegin \/ ProdEccAgentBegin \/ ProdEccSub
    \/ ProdEccAgentEnd \/ ProdEccStepEnd \/ ProdEccEmit
    \/ CallDebugCore
    \/ DebugSetup \/ DebugStepBegin \/ DebugAgentBegin \/ DebugSub \/ DebugAgentEnd
    \/ DebugStepEnd

PairSpec == PairInit /\ [][PairNext]_vars

----------------------------------------------------------------------------
(* STEP 2.0 of computeOceanCurrents (ocean.ts 50-76), one blur iteration at a time *)

\* the smoothing iteration counts of the inputs
Smoothings == {0, 1, 2}
\* phys.oceanCollisionBuffer of the inputs: 0, 0.25 and 40
Buffers == {0, 25, 40 * SC}
\* distCoast on land: 50, and 131072.01, which no single-precision number equals
LandDists == {50 * SC, 13107201}
OceanDists == {-200 * SC, -1000 * SC}

\* a 3 x 4 world with one land cell on its top row
FieldWorld(landCol, landDist, oceanDist, buffer, smoothing) ==
    [nr |-> 3, nc |-> 4, grid |-> GridOf(3, 4, {<<0, landCol>>}, landDist, oceanDist),
     phys |-> [Physics(100, 10, 10 * SC, 20 * SC, 1000) EXCEPT
                   !.oceanCollisionBuffer = buffer, !.oceanSmoothing = smoothing]]

\* the same world with the last cell of its grid missing
ShortGrid(w) == [w EXCEPT !.grid = SubSeq(w.grid, 1, Len(w.grid) - 1)]

FieldIdle ==
    UNCHANGED <<viewVars, debugVars, inputVars, monthVars, loopVars, outVars, mi, rngPos,
                targetMonths>>

FieldInit ==
    /\ \E landCol \in 0 .. 3, landDist \in LandDists, oceanDist \in OceanDists,
          buffer \in Buffers, smoothing \in Smoothings, short \in BOOLEAN :
            Call("prod",
                 IF short THEN ShortGrid(FieldWorld(landCol, landDist, oceanDist, buffer, smoothing))
                 ELSE FieldWorld(landCol, landDist, oceanDist, buffer, smoothing),
                 FlatLine(4, 0), FlatLine(4, 0), NoMonth, <<5>>)
    /\ InitRest
    /\ NoView
    /\ NoDebugCore

\* 50-55: the Float32Array and the loop that fills it
FieldFill ==
    /\ pc = "start"
    /\ collisionField' = RawField(grid, phys.oceanCollisionBuffer)
    /\ iter' = 0
    /\ pc' = "smooth"
    /\ FieldIdle
    /\ UNCHANGED <<fieldBefore, distGradX, distGradY, collisionMask>>

\* 58-76: one iteration of the smoothing loop
FieldBlur ==
    /\ pc = "smooth"
    /\ iter < phys.oceanSmoothing
    /\ fieldBefore' = collisionField
    /\ collisionField' = BlurOnce(collisionField)
    /\ iter' = iter + 1
    /\ FieldIdle
    /\ UNCHANGED <<pc, distGradX, distGradY, collisionMask>>

\* 78-98: the loop is over; collisionMask and the gradients are taken from the field
FieldStore ==
    /\ pc = "smooth"
    /\ iter >= phys.oceanSmoothing
    /\ collisionMask' = [i \in 0 .. Len(grid) - 1 |->
                            IF i \in Cells THEN collisionField[i] ELSE "undefined"]
    /\ distGradX' = GradX(collisionField)
    /\ distGradY' = GradY(collisionField)
    /\ pc' = "fieldDone"
    /\ FieldIdle
    /\ UNCHANGED <<collisionField, iter, fieldBefore>>

FieldNext == FieldFill \/ FieldBlur \/ FieldStore

FieldSpec == FieldInit /\ [][FieldNext]_vars
----------------------------------------------------------------------------
(* Phase-1 seeding on grids of several widths: the call up to the end of the *)
(* seeding loop of the first month (ocean.ts 179-218, part_004 210-239)      *)

\* the grid widths config.resolutionLon is drawn from
Widths == {1, 2, 12, 63, 64, 65, 128}

\* three rows; the ITCZ latitudes put the ITCZ row on row 1, between rows 0 and 1, and
\* north of the grid
SeedLats == {0, 45 * SC, 95 * SC}

\* no land, a wall cell on row 1 at column 0, a wall over rows 0 and 1 at the last column
SeedLands(nc) == {{}, {<<1, 0>>}, {<<0, nc - 1>>, <<1, nc - 1>>}}

SeedWorld(nc, land) ==
    [nr |-> 3, nc |-> nc, grid |-> GridOf(3, nc, land, 50 * SC, -200 * SC),
     phys |-> Physics(100, 10, 10 * SC, 20 * SC, 1000)]

SeedInit ==
    /\ \E v \in {"prod", "uni"}, nc \in Widths, lat \in SeedLats :
           \E land \in SeedLands(nc) :
               Call(v, SeedWorld(nc, land), FlatLine(nc, lat), FlatLine(nc, lat), NoMonth, <<5>>)
    /\ InitRest
    /\ NoView
    /\ NoDebugCore

SeedNext == BuildCollisionField \/ MonthBegin \/ ProdSpawnEcc \/ UniSpawnEcc

SeedSpec == SeedInit /\ [][SeedNext]_vars

----------------------------------------------------------------------------
Next ==
    \/ BuildCollisionField
    \/ MonthBegin
    \/ ProdSpawnEcc \/ ProdEccStepBegin \/ ProdEccAgentBegin \/ ProdEccSub
    \/ ProdEccAgentEnd \/ ProdEccStepEnd \/ ProdEccEmit
    \/ ProdSpawnEc \/ ProdEcStepBegin \/ ProdEcAgentBegin \/ ProdEcSub
    \/ ProdEcAgentEnd \/ ProdEcStepEnd \/ ProdEcEmit
    \/ ProdReturn
    \/ UniSpawnEcc \/ UniEccStepBegin \/ UniEccAgentBegin \/ UniEccSub
    \/ UniEccAgentEnd \/ UniEccStepEnd \/ UniEccEmit
    \/ UniSpawnEc \/ UniEcStepBegin \/ UniEcAgentBegin \/ UniEcSub
    \/ UniEcAgentEnd \/ UniEcStepEnd \/ UniEcEmit
    \/ UniReturn

Spec == Init /\ [][Next]_vars

----------------------------------------------------------------------------
(* Properties *)

\* the second pass of the current month has been set up
EcPhase == pc \in {"ecLoop", "ecAgent", "ecSub", "ecAgentEnd", "ecEmit"}

\* the ImpactPoints of type ECC, in the order recorded
EccImpacts == SelectSeq(impactResults, LAMBDA ip : ip.type = "ECC")

\* findSafeSpawnX of the engine that runs
FindSafeSpawnX(x, y) ==
    IF variant = "prod" THEN ProdFindSafeSpawnX(x, y) ELSE UniFindSafeSpawnX(x, y)

\* the first trajectory sample of the agent at position k of ecAgents
EcStart(k) == ecPoints[ecAgents[k].id][1]

\* the pair of agents seeded from the i-th ECC impact: EC_N then EC_S, both at the
\* safe-spawn coordinate of that impact
SeededFrom(i, ip) ==
    /\ ecAgents[2 * i - 1].type = "EC_N"
    /\ ecAgents[2 * i].type = "EC_S"
    /\ \A k \in {2 * i - 1, 2 * i} :
          /\ EcStart(k).x = FindSafeSpawnX(ip.x, ip.y)
          /\ EcStart(k).y = ip.y

\* C1: in every month, once Phase 2 is set up, its agent list is exactly one EC_N and
\* one EC_S per ImpactPoint of type ECC recorded in Phase 1 (head-on or stagnation),
\* both started at the safe-spawn coordinate of that impact, and nothing else:
\* #EC agents = 2 x #ECC impacts
C1_TwoAgentsPerEccImpact ==
    EcPhase =>
        /\ Len(ecAgents) = 2 * Len(EccImpacts)
        /\ \A i \in 1 .. Len(EccImpacts) : SeededFrom(i, EccImpacts[i])

\* Phase 2 of the unified engine running on the agents seeded from a stagnation impact
C1_Witness ==
    /\ variant = "uni" /\ pc = "ecSub" /\ Len(ecAgents) >= 2
    /\ \E k \in 1 .. Len(termLog) : termLog[k].pass = "ECC" /\ termLog[k].cause = "Stagnation"

\* Phase 1 is over: every ECC agent is inactive, or the step budget is used up
Phase1Over ==
    \/ \A k \in 1 .. Len(eccAgents) : ~eccAgents[k].active
    \/ step >= (IF variant = "prod" THEN phys.oceanStreamlineSteps ELSE BASE_MAX_STEPS)

\* C2: within a month the passes are strictly sequential: the first EC agent is created
\* only when the Phase-1 loop has ended, and from then on no ECC agent is stepped, no
\* ECC trajectory grows and nothing is added to the Phase-2 spawn list
C2_PassesSequential ==
    [][pc # "month" =>
          /\ (ecAgents = <<>> /\ ecAgents' # <<>>) => (pc = "ecSpawn" /\ Phase1Over)
          /\ (pc \in {"eccLoop", "eccAgent", "eccSub", "eccAgentEnd"}) => ecAgents' = <<>>
          /\ (ecAgents # <<>> \/ EcPhase) =>
                /\ eccAgents' = eccAgents
                /\ agentPoints' = agentPoints
                /\ impactPointsTemp' = impactPointsTemp]_vars

\* an EC agent in the middle of its sub-steps while Phase 1 left a trajectory behind
C2_Witness ==
    /\ pc = "ecSub" /\ ss > 0 /\ ecAgents # <<>>
    /\ \E k \in 1 .. Len(eccAgents) : Len(agentPoints[eccAgents[k].id]) > 1

\* the agent the loop body is at
CurrentEcc == eccAgents[PosOf(eccAgents, loopAgents[ai], 1)]
CurrentEc == ecAgents[PosOf(ecAgents, loopAgents[ai], 1)]

\* what the prefix of a loop body decides, without the debug snapshots
Outcome(r) == [agent |-> r.agent, flow |-> r.flow, next |-> r.next, cause |-> r.cause,
               impacts |-> r.impacts, spawns |-> r.spawns, diags |-> r.diags]

\* C3: in the unified engine, whatever state a month's simulation is in, the part of a
\* loop body that reads isDebugRun decides the same agent, pruning cache, impacts, spawn
\* points and continuation with snapshot capture on as with capture off; so the
\* streamlines, ImpactPoints and spawn list of the month are the same for debugMonth = m
\* and for debugMonth undefined
C3_DebugCaptureNeutral ==
    (variant = "uni" /\ ai <= Len(loopAgents)) =>
        /\ pc = "eccAgent" =>
              Outcome(UniEccBegin(CurrentEcc, flowGrid, agentPoints, TRUE))
                = Outcome(UniEccBegin(CurrentEcc, flowGrid, agentPoints, FALSE))
        /\ pc = "ecAgent" =>
              Outcome(UniEcBegin(CurrentEc, flowGrid, agentPoints, TRUE))
                = Outcome(UniEcBegin(CurrentEc, flowGrid, agentPoints, FALSE))

\* a debug run at the pruning guard of an active EC agent whose trajectory has more than
\* 5 samples
C3_Witness ==
    /\ variant = "uni" /\ pc = "ecAgent" /\ isDebugRun /\ ai <= Len(loopAgents)
    /\ CurrentEc.active /\ Len(ecPoints[CurrentEc.id]) > 5

\* values Math.random can return, on both sides of the thresholds 0.1 and 0.2
Draws == {0, 9, 10, 19, 20, 99}

EcSubStep(agent, rnd) ==
    IF variant = "prod" THEN ProdEcSubStep(agent, rnd) ELSE UniEcSubStep(agent, rnd)

\* C4: the value Math.random returns changes nothing of a sub-step but the appended
\* impacts, which are of type EC: position, velocity, active flag, termination cause,
\* spawn points and the number of draws consumed are the same for every draw (Phase 1
\* draws nothing)
C4_DrawOnlyThinsEcImpacts ==
    pc = "ecSub" =>
        \A rnd \in Draws :
            /\ [EcSubStep(CurrentEc, rnd) EXCEPT !.impacts = <<>>]
                 = [EcSubStep(CurrentEc, NextRandom) EXCEPT !.impacts = <<>>]
            /\ \A k \in 1 .. Len(EcSubStep(CurrentEc, rnd).impacts) :
                  EcSubStep(CurrentEc, rnd).impacts[k].type = "EC"

\* an EC sub-step of ocean.ts whose recorded impacts depend on the draw
C4_Witness ==
    /\ pc = "ecSub" /\ variant = "prod"
    /\ ProdEcSubStep(CurrentEc, 5).impacts # ProdEcSubStep(CurrentEc, 50).impacts

\* C5 (as claimed): a call with a grid whose length is not rows x cols ends with an
\* error outcome and returns no streamlines and no impacts
C5_SizeMismatchFailsFast ==
    (Len(grid) # rows * cols /\ pc = "done") =>
        /\ outcome = "error"
        /\ \A j \in DOMAIN streamlinesByMonth : streamlinesByMonth[j] = <<>>
        /\ \A j \in DOMAIN impactsByMonth : impactsByMonth[j] = <<>>

\* a month has just been emitted (the per-month state is still that of the month)
MonthEnded == pc \in {"month", "done"} /\ mi > 1

\* the positions in a pass's agent list of the agents with more than 5 samples
Qualifying(agents, pts) ==
    SelectSeq([k \in 1 .. Len(agents) |-> k], LAMBDA k : Len(pts[agents[k].id]) > 5)

LineOf(agent, pts, type) == [points |-> pts[agent.id], strength |-> agent.strength, type |-> type]

\* C6: at the end of a month the streamline list is, in order, one streamline for every
\* ECC agent with more than 5 samples (type main) and one for every EC agent with more
\* than 5 samples (split_n for EC_N, split_s for EC_S), each with that agent's own
\* trajectory, and nothing else; it is what the month returns
C6_OneStreamlinePerLongTrajectory ==
    MonthEnded =>
        /\ Len(finishedLines) = Len(Qualifying(eccAgents, agentPoints))
                                  + Len(Qualifying(ecAgents, ecPoints))
        /\ \A j \in 1 .. Len(Qualifying(eccAgents, agentPoints)) :
              finishedLines[j]
                = LineOf(eccAgents[Qualifying(eccAgents, agentPoints)[j]], agentPoints, "main")
        /\ \A j \in 1 .. Len(Qualifying(ecAgents, ecPoints)) :
              finishedLines[Len(Qualifying(eccAgents, agentPoints)) + j]
                = LineOf(ecAgents[Qualifying(ecAgents, ecPoints)[j]], ecPoints,
                         IF ecAgents[Qualifying(ecAgents, ecPoints)[j]].type = "EC_N"
                         THEN "split_n" ELSE "split_s")
        /\ streamlinesByMonth[targetMonths[mi - 1]] = finishedLines

\* a month that ends with streamlines of both passes, one of them of an EC_S agent, and
\* with an agent whose trajectory is too short to be emitted
C6_Witness ==
    /\ MonthEnded
    /\ Qualifying(eccAgents, agentPoints) # <<>>
    /\ \E k \in 1 .. Len(ecAgents) : ecAgents[k].type = "EC_S" /\ Len(ecPoints[ecAgents[k].id]) > 5
    /\ \E k \in 1 .. Len(ecAgents) : Len(ecPoints[ecAgents[k].id]) <= 5

\* every agent of the month, of both passes
AllAgents == {eccAgents[k] : k \in 1 .. Len(eccAgents)} \cup {ecAgents[k] : k \in 1 .. Len(ecAgents)}

\* C7: in the unified engine an agent is inactive exactly when its lifecycle state is
\* impact, stuck or dead, and an inactive agent has a cause that is defined and not
\* empty: in no state, sub-step by sub-step, is an agent inactive without its cause
C7_InactiveHasStateAndCause ==
    variant = "uni" =>
        \A a \in AllAgents :
            /\ ~a.active <=> a.state \in {"impact", "stuck", "dead"}
            /\ ~a.active => a.cause \notin {"undefined", ""}

\* the unified engine with an ECC agent stopped by an impact and an EC agent dead
C7_Witness ==
    /\ variant = "uni"
    /\ \E k \in 1 .. Len(eccAgents) : ~eccAgents[k].active /\ eccAgents[k].state = "impact"
    /\ \E k \in 1 .. Len(ecAgents) : ~ecAgents[k].active /\ ecAgents[k].state = "dead"

\* the collision-field value at a point
DistAt(p) == getEnvironment(p.x, p.y).dist

\* the agent and the trajectory the loop body of ocean.ts is at
CurrentAgent == IF pc = "eccAgentEnd" THEN CurrentEcc ELSE CurrentEc
CurrentPoints == IF pc = "eccAgentEnd" THEN agentPoints[CurrentEcc.id] ELSE ecPoints[CurrentEc.id]

Collided == \E k \in 1 .. Len(subLog) : subLog[k].branch \in {"impact", "slide"}

\* C8: in both passes of ocean.ts a sub-step that commits the candidate position (clear
\* path) ends at dist <= 0, and a sub-step that takes the agent from dist <= 0 to
\* dist > 0 is a collision (impact or slide); so a trajectory sample at dist > 0 that
\* follows one at dist < 0 has an impact or a slide among the sub-steps between them
C8_NoTunneling ==
    variant = "prod" =>
        /\ \A k \in 1 .. Len(subLog) :
              /\ subLog[k].branch = "clear" => subLog[k].distAfter <= 0
              /\ (subLog[k].distOld <= 0 /\ subLog[k].distAfter > 0)
                    => subLog[k].branch \in {"impact", "slide"}
        /\ (pc \in {"eccAgentEnd", "ecAgentEnd"} /\ ~isDead) =>
              ((DistAt(CurrentPoints[Len(CurrentPoints)]) < 0 /\ DistAt(CurrentAgent) > 0)
                  => Collided)

\* an agent of ocean.ts about to record a sample inside the wall after a sample in
\* open water
C8_Witness ==
    /\ variant = "prod" /\ pc \in {"eccAgentEnd", "ecAgentEnd"} /\ ~isDead
    /\ DistAt(CurrentPoints[Len(CurrentPoints)]) < 0
    /\ DistAt(CurrentAgent) > 0

\* every cell of the input is open water (with the collision buffer added)
AllOceanGrid ==
    /\ Len(grid) = rows * cols
    /\ \A i \in 1 .. Len(grid) : grid[i] + phys.oceanCollisionBuffer < 0

TerminationCauses == {termLog[k].cause : k \in 1 .. Len(termLog)}

\* C9 (as claimed): on an all-ocean grid ocean.ts records no ImpactPoint, creates no
\* Phase-2 agent, and terminates agents by SpeedFloor or Deflection only
C9_OpenOceanOnlySpeedFloorOrDeflection ==
    (variant = "prod" /\ AllOceanGrid /\ pc # "start") =>
        /\ impactResults = <<>> /\ impactPointsTemp = <<>> /\ ecAgents = <<>>
        /\ TerminationCauses \subseteq {"SpeedFloor", "Deflection"}

\* C9 (amended): on an all-ocean grid every collision-field value is negative, ocean.ts
\* records no ImpactPoint and creates no Phase-2 agent, and every agent that stops
\* before the step budget is stopped by SpeedFloor, by Deflection or by the pruning
\* guard
C9_OpenOceanNoImpact ==
    (variant = "prod" /\ AllOceanGrid /\ pc # "start") =>
        /\ \A i \in Cells : collisionField[i] < 0
        /\ impactResults = <<>> /\ impactPointsTemp = <<>> /\ ecAgents = <<>>
        /\ TerminationCauses \subseteq {"SpeedFloor", "Deflection", "Pruned"}
        /\ \A k \in 1 .. Len(eccAgents) :
              ~eccAgents[k].active =>
                  \E j \in 1 .. Len(termLog) : termLog[j].id = eccAgents[k].id

\* Phase 1 on the all-ocean grid over, with agents stopped by Deflection and by pruning
C9_Witness ==
    /\ variant = "prod" /\ AllOceanGrid /\ pc = "eccEmit"
    /\ TerminationCauses = {"Deflection", "Pruned"}

\* the ImpactPoints of type ECC of a month's output
EccOnly(imps) == SelectSeq(imps, LAMBDA ip : ip.type = "ECC")

----------------------------------------------------------------------------
(* EC_INFANT_DEATH diagnostics of the unified engine *)

InfantDeaths == SelectSeq(diagnostics, LAMBDA d : d.type = "EC_INFANT_DEATH")

\* the diagnostic was pushed for this agent: its position, and its age at the moment of
\* death (agent.age++ still runs after an arrival)
FlaggedAsInfant(a) ==
    \E j \in 1 .. Len(InfantDeaths) :
        /\ InfantDeaths[j].x = a.x /\ InfantDeaths[j].y = a.y
        /\ InfantDeaths[j].age \in {a.age, a.age - 1}

\* C11: in the unified engine every EC agent that has terminated, by any cause, with an
\* age below 20 outer steps has an EC_INFANT_DEATH diagnostic carrying its age, and every
\* EC_INFANT_DEATH diagnostic records an age below 20
C11_EveryYoungEcDeathFlagged ==
    variant = "uni" =>
        /\ \A i \in 1 .. Len(ecAgents) :
              (~ecAgents[i].active /\ ecAgents[i].age < 20) => FlaggedAsInfant(ecAgents[i])
        /\ \A j \in 1 .. Len(InfantDeaths) : InfantDeaths[j].age < 20

----------------------------------------------------------------------------
(* The returned month arrays *)

\* the months the call simulates: debugMonth alone when it is given, else January and July
SimulatedMonths == IF variant = "uni" /\ debugMonth # NoMonth THEN {debugMonth} ELSE {0, 6}

Returned == pc = "done" /\ outcome = "returned"

\* C12: the returned streamlines and impacts arrays have a defined entry for each of the
\* 12 months, and the entry of every month that was not simulated is an empty list
C12_TwelveMonthsReturned ==
    Returned =>
        /\ DOMAIN streamlinesByMonth = 0 .. 11
        /\ DOMAIN impactsByMonth = 0 .. 11
        /\ \A j \in (0 .. 11) \ SimulatedMonths :
              streamlinesByMonth[j] = <<>> /\ impactsByMonth[j] = <<>>

\* a debug run of July alone has returned its streamlines, and January is empty
C12_Witness ==
    /\ Returned /\ variant = "uni" /\ debugMonth = 6
    /\ streamlinesByMonth[6] # <<>> /\ streamlinesByMonth[0] = <<>>

----------------------------------------------------------------------------
(* The EC guide lines of OceanDebugView *)

GuidesDrawn == canvas # <<>> /\ canvas[1].gap # <<>>

GuideGapMatches == canvas[1].gap[1] = canvas[1].data.callPhys.oceanEcLatGap

\* C13: whenever debug data is displayed with its EC guide lines, the gap the guide lines
\* are drawn with is the oceanEcLatGap of the physics parameters that were passed to
\* computeOceanCurrents to produce the displayed data, also while a recomputation timer
\* is pending
C13_GuideGapMatchesDisplayedData == GuidesDrawn => GuideGapMatches

\* the same, for the states in which no recomputation is pending
C13_GuideGapMatchesWhenIdle == (GuidesDrawn /\ timer = <<>>) => GuideGapMatches

----------------------------------------------------------------------------
(* runDebugSimulation against computeOceanCurrents of ocean.ts *)

BothPhase1Over == variant = "debug" /\ pc = "dbgPhase2"

\* the outer step at which the production core deactivated the agent (it has one
\* trajectory sample per step it survived, after the initial one), -1 if it never did
ProdEndStep(k) ==
    IF eccAgents[k].active THEN -1 ELSE Len(agentPoints[eccAgents[k].id]) - 1

\* the steps of the frames in which the debug core shows the agent as no longer active
DebugEndSteps(id) ==
    {frames[f].step : f \in {g \in 1 .. Len(frames) :
        \E s \in 1 .. Len(frames[g].agents) :
            frames[g].agents[s].id = id /\ frames[g].agents[s].state # "active"}}

SameEndStep(k) ==
    DebugEndSteps(dbgAgents[k].id) = IF ProdEndStep(k) = -1 THEN {} ELSE {ProdEndStep(k)}

\* C14: on the same grid, ITCZ line and parameters every ECC agent terminates at the same
\* outer step in runDebugSimulation and in computeOceanCurrents, and both produce the same
\* list of Phase-2 spawn points
C14_DebugCoreMatchesProduction ==
    BothPhase1Over =>
        /\ Len(dbgAgents) = Len(eccAgents)
        /\ \A k \in 1 .. Len(eccAgents) : SameEndStep(k)
        /\ allEcSpawns = DebugSpawnsOf(impactPointsTemp)


----------------------------------------------------------------------------
(* the step budget of the two passes *)

\* an agent of the current outer step is being advanced
AdvancingEcc == variant \in {"prod", "uni"} /\ pc \in {"eccSub", "eccAgentEnd"}
AdvancingEc == variant \in {"prod", "uni"} /\ pc \in {"ecSub", "ecAgentEnd"}

\* the agent of the current iteration is still active
SurvivorOf(agents) == agents[PosOf(agents, loopAgents[ai], 1)].active

\* C15 (as stated): in every month no pass, Phase 2 of both engines included, advances an
\* agent in an outer step beyond the configured budget phys.oceanStreamlineSteps, and an
\* outer step never runs more than SUB_STEPS sub-steps
C15_EveryPassWithinConfiguredBudget ==
    /\ (AdvancingEcc \/ AdvancingEc) => step < phys.oceanStreamlineSteps
    /\ ss <= SUB_STEPS

\* C15 (amended): ocean.ts bounds both passes by phys.oceanStreamlineSteps; the unified
\* engine bounds Phase 1 by BASE_MAX_STEPS and Phase 2 by BASE_MAX_STEPS plus the steps
\* Phase 1 left unused, so that the two passes of a month together stay within twice
\* BASE_MAX_STEPS; an outer step runs at most SUB_STEPS sub-steps, and exactly SUB_STEPS for
\* an agent that survives it
C15_PassesWithinTheirBudgets ==
    /\ (variant = "prod" /\ (AdvancingEcc \/ AdvancingEc)) => step < phys.oceanStreamlineSteps
    /\ (variant = "uni" /\ AdvancingEcc) => (step < BASE_MAX_STEPS /\ stepsUsedECC = step + 1)
    /\ (variant = "uni" /\ AdvancingEc) =>
           /\ maxStepsEC = 2 * BASE_MAX_STEPS - stepsUsedECC
           /\ step < maxStepsEC
           /\ stepsUsedECC + step < 2 * BASE_MAX_STEPS
    /\ ss <= SUB_STEPS
    /\ (AdvancingEcc /\ pc = "eccAgentEnd" /\ SurvivorOf(eccAgents)) => ss = SUB_STEPS
    /\ (AdvancingEc /\ pc = "ecAgentEnd" /\ SurvivorOf(ecAgents)) => ss = SUB_STEPS

\* Phase 2 of the unified engine advancing an agent in an outer step past the configured
\* budget, on steps Phase 1 left unused
C15_Witness ==
    /\ variant = "uni" /\ AdvancingEc
    /\ step >= phys.oceanStreamlineSteps
    /\ stepsUsedECC < BASE_MAX_STEPS

----------------------------------------------------------------------------
(* the collision field and its smoothing *)

\* the nine cells the code sums for the cell (r, c): rows clamped, columns wrapped
NeighbourCell(r, c, dr, dc) ==
    Min(Max(r + dr, 0), rows - 1) * cols + ((((c + dc) % cols) + cols) % cols)
RowSum(f, r, c, dr) ==
    f[NeighbourCell(r, c, dr, -1)] + f[NeighbourCell(r, c, dr, 0)] + f[NeighbourCell(r, c, dr, 1)]
NeighbourSum(f, r, c) == RowSum(f, r, c, -1) + RowSum(f, r, c, 0) + RowSum(f, r, c, 1)
\* the mean of the neighbourhood as a double
MeanAt(f, i) == RDiv(NeighbourSum(f, i \div cols, i % cols), 9)

FieldMin(f) == CHOOSE lo \in {f[i] : i \in DOMAIN f} : \A i \in DOMAIN f : lo <= f[i]
FieldMax(f) == CHOOSE hi \in {f[i] : i \in DOMAIN f} : \A i \in DOMAIN f : hi >= f[i]

\* the field is filled, and no blur iteration has run or will run
Unsmoothed == pc \in {"smooth", "fieldDone"} /\ phys.oceanSmoothing = 0
\* the last thing that happened to the field was a blur iteration
Blurred == pc \in {"smooth", "fieldDone"} /\ iter >= 1
WithinBefore(i) ==
    FieldMin(fieldBefore) <= collisionField[i] /\ collisionField[i] <= FieldMax(fieldBefore)

\* C16 (as stated): with smoothing 0 every cell of the collision field equals
\* distCoast + buffer of the same grid cell; a blur iteration replaces every cell by the
\* mean of its 3x3 neighbourhood (columns wrap, rows clamp), so that every blurred cell
\* lies between the minimum and the maximum of the field before the iteration
C16_FieldIsDistPlusBuffer ==
    /\ Unsmoothed =>
           \A i \in Cells : i < Len(grid) =>
               collisionField[i] = grid[i + 1] + phys.oceanCollisionBuffer
    /\ Blurred =>
           \A i \in Cells : collisionField[i] = MeanAt(fieldBefore, i) /\ WithinBefore(i)

\* C16 (amended): with smoothing 0 every cell of the collision field holds
\* distCoast + buffer of the same grid cell rounded to single precision, and 0 where the
\* grid has no such cell; a blur iteration replaces every cell by the mean of its 3x3
\* neighbourhood (columns wrap, rows clamp) rounded to single precision, and every blurred
\* cell lies between the minimum and the maximum of the field before the iteration
C16_FieldIsSinglePrecisionDistPlusBuffer ==
    /\ Unsmoothed =>
           /\ iter = 0
           /\ \A i \in Cells :
                  collisionField[i] = IF i < Len(grid)
                                      THEN Fround(grid[i + 1] + phys.oceanCollisionBuffer)
                                      ELSE 0
    /\ Blurred =>
           \A i \in Cells :
               collisionField[i] = Fround(MeanAt(fieldBefore, i)) /\ WithinBefore(i)

\* the smoothing loop has run twice on a field with a land value that single precision
\* changes, and the blur changed the field
C16_Witness ==
    /\ pc = "fieldDone" /\ iter = 2
    /\ \E i \in Cells : collisionField[i] # fieldBefore[i]
    /\ \E i \in 1 .. Len(grid) :
           Fround(grid[i] + phys.oceanCollisionBuffer) # grid[i] + phys.oceanCollisionBuffer

----------------------------------------------------------------------------
(* what the agent loops write *)

\* the program is inside the outer-step loop of one of the two passes
InAgentLoops ==
    /\ variant \in {"prod", "uni"}
    /\ pc \in {"eccLoop", "eccAgent", "eccSub", "eccAgentEnd",
               "ecLoop", "ecAgent", "ecSub", "ecAgentEnd"}

\* the arrays and parameters the agents read besides the pruning cache
ReadOnlyInLoops == <<collisionField, distGradX, distGradY, collisionMask, grid, config, phys,
                     itczLines>>

\* the pruning cache only gains cells: a cell once recorded keeps its flow
CacheOnlyGrows ==
    \A c \in DOMAIN flowGrid : c \in DOMAIN flowGrid' /\ flowGrid'[c] = flowGrid[c]

\* C17: no step inside the agent loops of either pass writes the collision field, a
\* gradient array, PhysicsParams or an ITCZ line (nor the grid); of the buffers the agents
\* share, only the pruning cache changes there, and only at the pruning check at the top
\* of an agent's iteration, where it gains a cell and overwrites none
C17_LoopsWriteOnlyPruningCache ==
    [][InAgentLoops =>
          /\ UNCHANGED ReadOnlyInLoops
          /\ flowGrid' # flowGrid => (pc \in {"eccAgent", "ecAgent"} /\ CacheOnlyGrows)]_vars

\* Phase 2 is advancing agents after the pruning cache was written in both passes of an
\* engine whose collision field has a coast
C17_Witness ==
    /\ InAgentLoops /\ pc = "ecSub" /\ step >= 6
    /\ flowGrid # <<>>
    /\ \E i \in DOMAIN distGradX : distGradX[i] # 0
    /\ \E k \in 1 .. Len(ecAgents) : ecAgents[k].active /\ ecAgents[k].vx # 0

----------------------------------------------------------------------------
(* termination is final *)

\* what the claim freezes of an agent: everything but its age and its stagnation window
Core(a) == [f \in DOMAIN a \ {"age", "history"} |-> a[f]]

\* the agents at position k of a pass before and after a step, and their trajectories
StaysTerminated(before, after, ptsBefore, ptsAfter, k) ==
    (~before[k].active /\ Len(after) = Len(before)) =>
        /\ Core(after[k]) = Core(before[k])
        /\ before[k].id \in DOMAIN ptsBefore =>
               ptsAfter[before[k].id] = ptsBefore[before[k].id]

\* the iteration of the agent loop that is running is that of an agent already inactive
CurrentInactive(agents, pcs) ==
    /\ pc \in pcs /\ ai <= Len(loopAgents)
    /\ ~agents[PosOf(agents, loopAgents[ai], 1)].active

\* C18: once an agent of a pass is inactive, every later step of the pass leaves its
\* position, velocity, state and cause as they are and leaves it inactive, appends nothing
\* to its trajectory, and the iterations of the agent loop that meet it record no impact,
\* no spawn point and no diagnostic; in both passes of both engines
C18_TerminationAbsorbing ==
    [][(variant \in {"prod", "uni"} /\ pc # "month") =>
          /\ \A k \in 1 .. Len(eccAgents) :
                 StaysTerminated(eccAgents, eccAgents', agentPoints, agentPoints', k)
          /\ \A k \in 1 .. Len(ecAgents) :
                 StaysTerminated(ecAgents, ecAgents', ecPoints, ecPoints', k)
          /\ (\/ CurrentInactive(eccAgents, {"eccAgent", "eccSub", "eccAgentEnd"})
              \/ CurrentInactive(ecAgents, {"ecAgent", "ecSub", "ecAgentEnd"}))
                 => UNCHANGED <<impactResults, impactPointsTemp, diagnostics>>]_vars

\* an outer step of Phase 2 of the unified engine meets an agent that terminated in an
\* earlier step, while another agent of the pass is still active
C18_Witness ==
    /\ variant = "uni" /\ step >= 2
    /\ CurrentInactive(ecAgents, {"ecAgent"})
    /\ \E j \in 1 .. Len(termLog) :
           termLog[j].pass = "EC" /\ termLog[j].id = loopAgents[ai]
    /\ \E k \in 1 .. Len(ecAgents) : ecAgents[k].active

\* the unified engine never prunes an EC agent: its guard reads agentPoints at an id no
\* Phase-1 agent has, so no agent reaches the stagnation check of Phase 2 already pruned
C18_NoEcAgentPrunedInUnified ==
    variant = "uni" =>
        /\ \A j \in 1 .. Len(termLog) :
               termLog[j].pass = "EC" => termLog[j].cause # "Merged/Pruned"
        /\ \A k \in 1 .. Len(ecAgents) : ecAgents[k].id \notin DOMAIN agentPoints

----------------------------------------------------------------------------
(* the pruning guard of Phase 2 *)

\* the agent loop of Phase 2 is about to run the iteration of an active agent
EcIterationOf(k) ==
    /\ variant \in {"prod", "uni"} /\ pc = "ecAgent" /\ ai <= Len(loopAgents)
    /\ k = PosOf(ecAgents, loopAgents[ai], 1)
    /\ ecAgents[k].active

\* the iteration will call updateAndCheckPruning
EcChecked(k) ==
    IF variant = "prod" THEN ProdEcPruneGuard(ecAgents[k])
    ELSE UniEcPruneGuard(ecAgents[k], agentPoints, isDebugRun)

OwnSamples(k) == Len(ecPoints[ecAgents[k].id])

\* C19: in Phase 2 an EC agent is checked against the pruning cache in an outer step
\* exactly when its own recorded trajectory has more than 5 samples, whatever the
\* trajectories of the Phase-1 agents are
C19_EcPrunedOnOwnTrajectory ==
    \A k \in 1 .. Len(ecAgents) : EcIterationOf(k) => (EcChecked(k) <=> OwnSamples(k) > 5)


----------------------------------------------------------------------------
(* whose flow an agent is pruned against *)

AgentOf(pass, id) ==
    IF pass = "ECC" THEN eccAgents[PosOf(eccAgents, id, 1)] ELSE ecAgents[PosOf(ecAgents, id, 1)]

\* the cell of the pruning cache an agent stands in
CacheCell(a) == getIdx(Round(a.x), Round(a.y))

\* the terminations by pruning of the month so far
Prunings == {j \in 1 .. Len(termLog) : termLog[j].cause \in {"Pruned", "Merged/Pruned"}}

\* the agent was pruned against a flow which its own earlier call of
\* updateAndCheckPruning had recorded
SelfPruned(j) ==
    flowWriter[CacheCell(AgentOf(termLog[j].pass, termLog[j].id))]
        = <<termLog[j].pass, termLog[j].id>>

\* C20: an agent is pruned only against a flow that a different agent recorded in its
\* cell: the cache entry an agent wrote itself in an earlier outer step never terminates
\* that agent
C20_NeverPrunedAgainstOwnFlow == \A j \in Prunings : ~SelfPruned(j)
----------------------------------------------------------------------------
(* the pruning cache within a month *)

\* the iteration of the Phase-1 agent loop that is about to run calls
\* updateAndCheckPruning (ocean.ts 227, part_004 312)
EccCalls ==
    /\ variant \in {"prod", "uni"} /\ pc = "eccAgent" /\ ai <= Len(loopAgents)
    /\ eccAgents[PosOf(eccAgents, loopAgents[ai], 1)].active
    /\ Len(agentPoints[loopAgents[ai]]) > 5
    /\ variant = "uni" =>
           ~IsStuck(PushHistory(eccAgents[PosOf(eccAgents, loopAgents[ai], 1)].history,
                                eccAgents[PosOf(eccAgents, loopAgents[ai], 1)].x,
                                eccAgents[PosOf(eccAgents, loopAgents[ai], 1)].y),
                    eccAgents[PosOf(eccAgents, loopAgents[ai], 1)].x,
                    eccAgents[PosOf(eccAgents, loopAgents[ai], 1)].y)

\* the same of Phase 2 (ocean.ts 418, part_004 455)
EcCalls == \E k \in 1 .. Len(ecAgents) : EcIterationOf(k) /\ EcChecked(k)

\* the agent the running iteration is for
Caller ==
    IF pc \in {"eccAgent", "eccSub", "eccAgentEnd"}
    THEN eccAgents[PosOf(eccAgents, loopAgents[ai], 1)]
    ELSE ecAgents[PosOf(ecAgents, loopAgents[ai], 1)]

\* a velocity is presented for a cell that holds none
FirstPresented == (EccCalls \/ EcCalls) /\ CacheCell(Caller) \notin DOMAIN flowGrid

\* the call stores the velocity and returns false: the agent goes on to its sub-steps
StoredNotPruned ==
    /\ flowGrid' = flowGrid @@ (CacheCell(Caller) :> <<Caller.vx, Caller.vy>>)
    /\ pc' \in {"eccSub", "ecSub"}
    /\ termLog' = termLog

\* C21: the pruning cache holds one velocity per cell (cell: rounded position, longitude
\* wrapped, latitude clamped); the first velocity presented for a cell is stored and the
\* call reports not pruned; a stored velocity never changes for the rest of the month,
\* in Phase 1 and Phase 2 alike, nothing else writes the cache, and every month starts
\* with an empty cache
C21_OneFlowPerCellPerMonth ==
    [][(variant \in {"prod", "uni"}) =>
          /\ pc = "month" /\ pc' = "spawnEcc" => flowGrid' = <<>>
          /\ pc # "month" => CacheOnlyGrows
          /\ FirstPresented => StoredNotPruned
          /\ (pc # "month" /\ ~FirstPresented) => flowGrid' = flowGrid]_vars

\* the second month of a run is in Phase 2 with cells of its cache written by agents of
\* both passes, after an agent was pruned against a stored flow
C21_Witness ==
    /\ mi = 2 /\ pc = "ecSub"
    /\ \E c \in DOMAIN flowWriter : flowWriter[c][1] = "ECC"
    /\ \E c \in DOMAIN flowWriter : flowWriter[c][1] = "EC"
    /\ \E j \in Prunings : TRUE

----------------------------------------------------------------------------
(* Phase-1 seeding *)

\* the seeding loop of the current month has run
SeedingDone == variant \in {"prod", "uni"} /\ pc = "eccLoop" /\ step = 0

\* the ITCZ row of column c
ItczRow(c) == getRowFromLat(itcz(c))

\* the ITCZ row of column c lies inside the grid and the field there is open water
OpenWaterAt(c) ==
    /\ ItczRow(c) >= 0 /\ ItczRow(c) < rows * SC
    /\ getEnvironment(c * SC, ItczRow(c)).dist <= -20 * SC

\* the cell immediately west of column c on the ITCZ row is a wall
WestIsWall(c) == collisionField[getIdx(c - 1, Round(ItczRow(c)))] > 0

\* c is a whole multiple of d
IsMultipleOf(c, d) == \E k \in 0 .. c : c = k * d

\* an ECC agent was seeded at (c, ITCZ row)
Seeded(c) ==
    \E k \in 1 .. Len(eccAgents) :
        /\ agentPoints[eccAgents[k].id][1].x = c * SC
        /\ agentPoints[eccAgents[k].id][1].y = ItczRow(c)

\* C22: on every column whose ITCZ row is inside the grid and open water (field <= -20)
\* an ECC agent is seeded exactly when the cell immediately west is a wall or the column
\* is a multiple of cols / 64; hence a grid of any width whose ITCZ row is open water in
\* every column gets at least one ECC agent
C22_SeedingRuleAndBaseDensity ==
    SeedingDone =>
        /\ \A c \in 0 .. cols - 1 :
               OpenWaterAt(c) => (Seeded(c) <=> (WestIsWall(c) \/ IsMultipleOf(c, cols \div 64)))
        /\ (\A c \in 0 .. cols - 1 : OpenWaterAt(c)) => Len(eccAgents) >= 1

\* what the code does: the gap-fill test c % gapFillInterval === 0 is never true when
\* gapFillInterval is 0, and columns outside open water are never seeded
C22_SeedingAsCoded ==
    SeedingDone =>
        \A c \in 0 .. cols - 1 :
            Seeded(c) <=> (OpenWaterAt(c) /\ (WestIsWall(c) \/ IsGapFill(c)))

\* from 64 columns on the rule and the base density are as claimed
C22_HoldsFrom64Columns == cols >= 64 => C22_SeedingRuleAndBaseDensity

\* a grid narrower than 64 columns, open water on the whole ITCZ row, seeded with nothing
C22_NoAgentOnNarrowOpenOcean ==
    /\ SeedingDone /\ cols < 64
    /\ \A c \in 0 .. cols - 1 : OpenWaterAt(c)
    /\ eccAgents = <<>>

----------------------------------------------------------------------------
(* stagnation in the unified engine *)

\* the agent loop of a pass of the unified engine is about to run the iteration of an
\* active agent
UniIteration ==
    /\ variant = "uni" /\ pc \in {"eccAgent", "ecAgent"} /\ ai <= Len(loopAgents)
    /\ Caller.active

\* the agent of the running iteration, after the step
CallerAfter ==
    IF pc \in {"eccAgent", "eccSub", "eccAgentEnd"}
    THEN eccAgents'[PosOf(eccAgents, loopAgents[ai], 1)]
    ELSE ecAgents'[PosOf(ecAgents, loopAgents[ai], 1)]

\* min(|dx|, cols - |dx|) + |dy| between (x, y) and a retained position
WrapDistance(x, y, pos) ==
    Min(Abs(x - pos[1]), cols * SC - Abs(x - pos[1])) + Abs(y - pos[2])

\* the step terminates the agent of the running iteration for stagnation
StagnatesNow ==
    /\ ~CallerAfter.active /\ CallerAfter.state = "impact" /\ CallerAfter.cause = "Stagnation"
    /\ termLog' = Append(termLog, Terminated(IF pc = "eccAgent" THEN "ECC" ELSE "EC",
                                             Caller.id, "Stagnation"))

\* the window after the step holds 12 positions and the agent is less than 0.3 cells
\* away from the oldest of them
WindowFullAndStill ==
    /\ Len(CallerAfter.history) = 12
    /\ WrapDistance(Caller.x, Caller.y, CallerAfter.history[1]) < 30

\* the records of a stagnation: in Phase 1 an ECC impact and a spawn point on the agent's
\* row, in Phase 2 an EC impact
StagnationRecorded ==
    IF pc = "eccAgent"
    THEN /\ impactResults' = Append(impactResults, Impact(Caller.x, Caller.y, "ECC"))
         /\ Len(impactPointsTemp') = Len(impactPointsTemp) + 1
         /\ impactPointsTemp'[Len(impactPointsTemp')].y = Caller.y
    ELSE impactResults' = Append(impactResults, Impact(Caller.x, Caller.y, "EC"))

\* every agent of the unified engine retains at most 12 positions
HistoryBounded ==
    variant = "uni" =>
        /\ \A k \in 1 .. Len(eccAgents) : Len(eccAgents[k].history) <= 12
        /\ \A k \in 1 .. Len(ecAgents) : Len(ecAgents[k].history) <= 12

\* C23: in the unified engine a position history never holds more than 12 entries; an
\* agent is terminated for stagnation exactly in the iteration in which its history
\* holds 12 entries and the wrap-aware distance min(|dx|, cols - |dx|) + |dy| from its
\* position to the oldest retained one is below 0.3 cells, hence not before the twelfth
\* outer step that processes it; in Phase 1 the termination records an ECC impact and a
\* Phase-2 spawn point
C23_StagnationByTwelveStepWindow ==
    [][/\ HistoryBounded'
       /\ UniIteration =>
              /\ StagnatesNow <=> WindowFullAndStill
              /\ StagnatesNow => (Caller.age >= 11 /\ StagnationRecorded)
       /\ (variant = "uni" /\ ~UniIteration) =>
              \A j \in Len(termLog) + 1 .. Len(termLog') : termLog'[j].cause # "Stagnation"]_vars

\* an ECC agent of the unified engine has just been terminated for stagnation with a full
\* window, and its impact and its spawn point are on record
C23_Witness ==
    /\ variant = "uni" /\ pc = "eccAgent" /\ termLog # <<>>
    /\ termLog[Len(termLog)] \in {Terminated("ECC", id, "Stagnation") : id \in 0 .. 11}
    /\ Len(AgentOf("ECC", termLog[Len(termLog)].id).history) = 12
    /\ impactPointsTemp # <<>>
    /\ impactResults # <<>>
    /\ impactResults[Len(impactResults)].x = AgentOf("ECC", termLog[Len(termLog)].id).x

\* Phase 2 of the unified engine terminates an agent for stagnation as well
C23_EcStagnationReached ==
    variant = "uni" /\ \E j \in 1 .. Len(termLog) :
        termLog[j].pass = "EC" /\ termLog[j].cause = "Stagnation"

----------------------------------------------------------------------------
(* speed limit and speed floor of ocean.ts *)

\* the step is a sub-step of an agent of ocean.ts
ProdSubStepTaken == variant = "prod" /\ pc \in {"eccSub", "ecSub"} /\ subLog' # subLog

\* the configured speed limit of the running pass: 2.5 x and 2.0 x oceanBaseSpeed
PassMaxSpeed ==
    IF pc = "eccSub" THEN RDiv(phys.oceanBaseSpeed * 25, 10) ELSE phys.oceanBaseSpeed * 2

\* the log entry of the sub-step just taken
LastSub == subLog'[Len(subLog')]

\* the sub-step computed a candidate speed below 0.01
BelowSpeedFloor == LastSub.speed >= 0 /\ LastSub.speed < 1

\* C24 as stated: after every completed sub-step of ocean.ts that leaves its agent
\* active, the magnitude of the agent's velocity is at most the pass's limit (2.5 x
\* oceanBaseSpeed in Phase 1, 2.0 x in Phase 2); a sub-step whose candidate speed, before
\* the limit is applied, is below 0.01 terminates the agent, and records no impact
C24_SpeedClampAndFloor ==
    [][ProdSubStepTaken =>
          /\ CallerAfter.active => Hypot(CallerAfter.vx, CallerAfter.vy) <= PassMaxSpeed
          /\ BelowSpeedFloor =>
                 /\ ~CallerAfter.active /\ isDead'
                 /\ impactResults' = impactResults
                 /\ impactPointsTemp' = impactPointsTemp]_vars

\* the sub-step recorded nothing, or it is a sub-step of Phase 2 whose hard collision
\* recorded one EC impact before the speed was computed
OnlyTheCollisionRecorded ==
    /\ impactPointsTemp' = impactPointsTemp
    /\ \/ impactResults' = impactResults
       \/ /\ pc = "ecSub" /\ LastSub.branch = "impact"
          /\ Len(impactResults') = Len(impactResults) + 1
          /\ SubSeq(impactResults', 1, Len(impactResults)) = impactResults
          /\ impactResults'[Len(impactResults')].type = "EC"

\* C24, amended: the limit holds as stated; a sub-step whose candidate speed is below 0.01
\* terminates the agent before the velocity is committed; the speed floor itself records
\* no impact and no spawn point, in Phase 1 nothing is recorded in that sub-step, in
\* Phase 2 the sub-step's own hard collision may have recorded its EC impact
C24_SpeedClampAndFloorAfterCollision ==
    [][ProdSubStepTaken =>
          /\ CallerAfter.active => Hypot(CallerAfter.vx, CallerAfter.vy) <= PassMaxSpeed
          /\ BelowSpeedFloor =>
                 /\ ~CallerAfter.active /\ isDead'
                 /\ CallerAfter.vx = Caller.vx /\ CallerAfter.vy = Caller.vy
                 /\ OnlyTheCollisionRecorded
                 /\ pc = "eccSub" => impactResults' = impactResults]_vars

\* a sub-step of Phase 2 has just terminated its agent at the speed floor, after the
\* limit had cut the agent's speed in an earlier sub-step of the same outer step
C24_Witness ==
    /\ variant = "prod" /\ pc = "ecAgentEnd" /\ isDead
    /\ subLog[Len(subLog)].speed = 0 /\ subLog[Len(subLog)].cause = "SpeedFloor"
    /\ \E k \in 1 .. Len(subLog) - 1 : subLog[k].speed > 2 * phys.oceanBaseSpeed

\* the speed floor ends an agent of Phase 1 as well
C24_EccFloorReached ==
    /\ variant = "prod" /\ pc = "eccAgentEnd" /\ isDead
    /\ subLog[Len(subLog)].speed = 0 /\ subLog[Len(subLog)].cause = "SpeedFloor"

\* the limit cuts the speed of an agent of Phase 1 that stays active
C24_EccClampReached ==
    /\ variant = "prod" /\ pc = "eccSub" /\ subLog # <<>> /\ ~isDead
    /\ subLog[Len(subLog)].speed > RDiv(phys.oceanBaseSpeed * 25, 10)

----------------------------------------------------------------------------
(* the Phase-2 spawn coordinate *)

\* spawn point j of the month and the hit point it was derived from: every push to
\* impactPointsTemp follows a push of an ECC impact to impactResults
SpawnOf(j) == impactPointsTemp[j]
HitOf(j) == impactResults[j]

\* the spawn coordinate lies west of the hit point, on its row
WestOfHit(j) == SpawnOf(j).x < HitOf(j).x /\ SpawnOf(j).y = HitOf(j).y

\* the collision field at the spawn coordinate
FieldAtSpawn(j) == getEnvironment(SpawnOf(j).x, SpawnOf(j).y).dist

\* C25: every Phase-2 spawn coordinate that findSafeSpawnX returns lies strictly west of
\* the hit point it was derived from and is in open water: the collision field at the
\* spawn coordinate is negative
C25_SpawnWestOfHitInOpenWater ==
    \A j \in 1 .. Len(impactPointsTemp) : WestOfHit(j) /\ FieldAtSpawn(j) < 0

\* the part that holds: strictly west of the hit point, on its row
C25_SpawnWestOfHit ==
    /\ Len(impactPointsTemp) <= Len(impactResults)
    /\ \A j \in 1 .. Len(impactPointsTemp) : HitOf(j).type = "ECC" /\ WestOfHit(j)

----------------------------------------------------------------------------
(* the spawn offset of the unified engine *)

\* the samples of the westward raycast from the hit point: x - k for k = 0 .. 59
SampleX(j, k) == HitOf(j).x - k * SC

\* the raycast from hit point j meets deep water (field below -30) at its k-th sample and
\* at none before it
FirstDeepAt(j, k) ==
    /\ getEnvironment(SampleX(j, k), HitOf(j).y).dist < -30 * SC
    /\ \A i \in 0 .. k - 1 : ~(getEnvironment(SampleX(j, i), HitOf(j).y).dist < -30 * SC)

\* a distance in km as a number of grid cells on row y
KmToCells(km, y) == RDiv(km * 10 * SC, KmPerCell(y))

\* C26: in the unified engine the Phase-2 spawn x is the x of the first westward sample
\* whose field is below -30, minus phys.oceanSpawnOffset converted from km to grid cells
\* at the latitude of the row, for every configured offset, 0 included: an offset of 0
\* puts the spawn exactly on the deep-water sample
C26_SpawnIsDeepSampleMinusOffset ==
    variant = "uni" =>
        \A j \in 1 .. Len(impactPointsTemp) :
            \A k \in 0 .. 59 :
                FirstDeepAt(j, k) =>
                    SpawnOf(j).x = SampleX(j, k) - KmToCells(phys.oceanSpawnOffset, HitOf(j).y)

\* what the code does: a configured offset of 0 is replaced by 1000 km
C26_SpawnOffsetAsCoded ==
    variant = "uni" =>
        \A j \in 1 .. Len(impactPointsTemp) :
            \A k \in 0 .. 59 :
                FirstDeepAt(j, k) =>
                    SpawnOf(j).x = SampleX(j, k)
                        - KmToCells(IF phys.oceanSpawnOffset = 0 THEN 1000
                                    ELSE phys.oceanSpawnOffset, HitOf(j).y)

\* a spawn point of the unified engine under a configured offset of 0, a whole 1000 km
\* west of the deep-water sample
C26_ZeroOffsetSpawnsFarWest ==
    /\ variant = "uni" /\ phys.oceanSpawnOffset = 0 /\ impactPointsTemp # <<>>
    /\ \E k \in 0 .. 59 : FirstDeepAt(1, k) /\ SpawnOf(1).x = SampleX(1, k) - KmToCells(1000, HitOf(1).y)

----------------------------------------------------------------------------
(* the frames of a debug run of the unified engine *)

\* the number of frames Phase 1 has captured
EccFrames ==
    IF pc \in {"spawnEcc", "eccLoop", "eccAgent", "eccSub", "eccAgentEnd", "eccEmit", "ecSpawn"}
    THEN Len(debugFrames) ELSE startStepPhase2

\* the agents of the pass that captured frame i
AgentsOfFrame(i) == IF i <= EccFrames THEN eccAgents ELSE ecAgents

\* the snapshots of the agent `id` in frame i
SnapshotsOf(i, id) ==
    {k \in 1 .. Len(debugFrames[i].agents) : debugFrames[i].agents[k].id = id}

\* frame i holds exactly one snapshot of every agent of its pass, and no other
FrameComplete(i) ==
    /\ Len(debugFrames[i].agents) = Len(AgentsOfFrame(i))
    /\ \A k \in 1 .. Len(AgentsOfFrame(i)) :
           Cardinality(SnapshotsOf(i, AgentsOfFrame(i)[k].id)) = 1

FramesConsecutive == \A i \in 1 .. Len(debugFrames) : debugFrames[i].step = i - 1

\* C27: in a debug run of the unified engine every captured frame holds exactly one
\* snapshot of every agent of its pass, active or terminated, the frame of the step in
\* which an agent terminates included, and the step numbers of the frames are
\* consecutive from 0 across Phase 1 and Phase 2
C27_EveryFrameHasEveryAgent ==
    variant = "uni" =>
        /\ \A i \in 1 .. Len(debugFrames) : FrameComplete(i)
        /\ FramesConsecutive

\* the agent `id` was terminated for stagnation in the outer step of frame i: it is
\* inactive with that cause and frame i - 1, if there is one of the same pass, shows it
\* active
StagnatedInFrame(i, id) ==
    /\ \E j \in 1 .. Len(termLog) :
           /\ termLog[j].id = id /\ termLog[j].cause = "Stagnation"
           /\ termLog[j].pass = (IF i <= EccFrames THEN "ECC" ELSE "EC")
    /\ \A n \in i + 1 .. Len(debugFrames) :
           \A k \in SnapshotsOf(n, id) : debugFrames[n].agents[k].state = "impact"
    /\ (i > 1 /\ i # EccFrames + 1) =>
           \A k \in SnapshotsOf(i - 1, id) : debugFrames[i - 1].agents[k].state = "active"

\* what the code does: a frame holds at most one snapshot of an agent of its pass, and
\* the agents it lacks are those terminated for stagnation in its step; the step numbers
\* are consecutive from 0
C27_FramesLackOnlyStagnatedAgents ==
    variant = "uni" =>
        /\ FramesConsecutive
        /\ \A i \in 1 .. Len(debugFrames) :
               /\ \A k \in 1 .. Len(debugFrames[i].agents) :
                      \E a \in 1 .. Len(AgentsOfFrame(i)) :
                          AgentsOfFrame(i)[a].id = debugFrames[i].agents[k].id
               /\ \A a \in 1 .. Len(AgentsOfFrame(i)) :
                      \/ Cardinality(SnapshotsOf(i, AgentsOfFrame(i)[a].id)) = 1
                      \/ /\ SnapshotsOf(i, AgentsOfFrame(i)[a].id) = {}
                         /\ StagnatedInFrame(i, AgentsOfFrame(i)[a].id)

\* a debug run has captured frames of both passes, all complete so far, with agents
\* terminated by impact or arrival in them
C27_CompleteFramesReached ==
    /\ variant = "uni" /\ debugMonth # NoMonth /\ pc = "ecEmit"
    /\ EccFrames >= 2 /\ Len(debugFrames) >= EccFrames + 2
    /\ \A i \in 1 .. Len(debugFrames) : FrameComplete(i)
    /\ termLog # <<>>

----------------------------------------------------------------------------
(* trajectory samples *)

EccPcs == {"eccLoop", "eccAgent", "eccSub", "eccAgentEnd", "eccEmit"}
EcPcs == {"ecLoop", "ecAgent", "ecSub", "ecAgentEnd", "ecEmit"}

\* the step is the end of the iteration of an agent that is still active: the agent
\* finishes the outer step
FinishesActive(agents, endPc) ==
    pc = endPc /\ agents[PosOf(agents, loopAgents[ai], 1)].active

\* over a step of the pass, the trajectory of every agent but the one that finishes the
\* outer step stays as it is, and that one gains the agent's position and velocity
SampledPerOuterStep(agents, pts, ptsAfter, endPc) ==
    \A k \in 1 .. Len(agents) :
        IF FinishesActive(agents, endPc) /\ agents[k].id = loopAgents[ai]
        THEN ptsAfter[agents[k].id] = Append(pts[agents[k].id], Point(agents[k]))
        ELSE ptsAfter[agents[k].id] = pts[agents[k].id]

\* the trajectories of a pass that has just spawned its agents
OneSampleAtSpawn(agents, pts) ==
    \A k \in 1 .. Len(agents) : pts[agents[k].id] = <<Point(agents[k])>>

\* no trajectory has more samples than outer steps were executed, plus one
WithinStepCount(agents, pts, pcs, headPcs) ==
    pc \in pcs =>
        \A k \in 1 .. Len(agents) :
            Len(pts[agents[k].id]) <= (IF pc \in headPcs THEN step + 1 ELSE step + 2)

\* C28: a trajectory starts with one sample at the spawn position, gains exactly one
\* sample in each outer step its agent finishes while still active, none in a sub-step
\* and none in the outer step in which the agent terminates, whatever the cause; so it
\* never has more samples than outer steps executed plus one
C28_OneSamplePerFinishedOuterStep ==
    [][(variant \in {"prod", "uni"}) =>
          /\ pc = "spawnEcc" => OneSampleAtSpawn(eccAgents', agentPoints')
          /\ pc = "ecSpawn" => OneSampleAtSpawn(ecAgents', ecPoints')
          /\ pc \in EccPcs => SampledPerOuterStep(eccAgents, agentPoints, agentPoints',
                                                  "eccAgentEnd")
          /\ pc \in EcPcs => SampledPerOuterStep(ecAgents, ecPoints, ecPoints', "ecAgentEnd")
          /\ WithinStepCount(eccAgents, agentPoints, EccPcs, {"eccLoop", "eccEmit"})'
          /\ WithinStepCount(ecAgents, ecPoints, EcPcs, {"ecLoop", "ecEmit"})']_vars

\* Phase 2 of ocean.ts is at the head of an outer step with an agent that has finished
\* every step so far, one sample each, beside an agent that terminated with fewer samples
C28_Witness ==
    /\ variant = "prod" /\ pc = "ecLoop" /\ step >= 4
    /\ \E k \in 1 .. Len(ecAgents) :
           ecAgents[k].active /\ Len(ecPoints[ecAgents[k].id]) = step + 1
    /\ \E k \in 1 .. Len(ecAgents) :
           ~ecAgents[k].active /\ Len(ecPoints[ecAgents[k].id]) < step + 1

----------------------------------------------------------------------------
(* collision bisection *)

\* the sub-step just taken by ocean.ts ran the binary search
Bisected == ProdSubStepTaken /\ LastSub.bisection # <<>>
Search == LastSub.bisection[1]
\* the field at parameter t / 16 of the searched segment
SegmentDist(t) ==
    getEnvironment(MidPoint(Search.x, Search.y, Search.nextX, Search.nextY, t)[1],
                   MidPoint(Search.x, Search.y, Search.nextX, Search.nextY, t)[2]).dist
HitDist == getEnvironment(Search.b.hitX, Search.b.hitY).dist

\* the search keeps the crossing between tLow and tHigh, one sixteenth apart
Bracketed ==
    /\ Search.b.tHigh - Search.b.tLow = 1
    /\ SegmentDist(Search.b.tLow) <= 0 /\ SegmentDist(Search.b.tHigh) > 0
    /\ LastSub.distOld <= 0

\* C29: a sub-step that crosses from dist <= 0 to dist > 0 bisects 4 times keeping
\* dist(tLow) <= 0 < dist(tHigh), ends with tHigh - tLow = 1/16, and reports a hit point
\* where the field is <= 0, so that a slide leaves the agent outside the wall
C29_HitPointOnSafeSide ==
    [][Bisected =>
          /\ Bracketed
          /\ HitDist <= 0
          /\ LastSub.branch = "slide" => LastSub.distAfter <= 0]_vars

\* what the search does guarantee: the bracket, and a hit point that is the last midpoint
\* sampled, the point at tLow or the one at tHigh
C29_HitPointIsLastMidpoint ==
    [][Bisected =>
          /\ Bracketed
          /\ \E t \in {Search.b.tLow, Search.b.tHigh} :
                 <<Search.b.hitX, Search.b.hitY>>
                     = MidPoint(Search.x, Search.y, Search.nextX, Search.nextY, t)]_vars

----------------------------------------------------------------------------
(* the recomputation timers of OceanDebugView *)

\* at most one timer is pending, and it is the one of the latest run of the effect
OneLiveTimer == Len(timer) <= 1 /\ \A k \in DOMAIN timer : timer[k].latest

\* the displayed data was computed from the selected month and the active physics
DataIsCurrent ==
    /\ debugData[1].callPhys = activePhys
    /\ debugData[1].itczLine = itczLines[targetMonth]
    /\ debugMonth = targetMonth

\* nothing is pending: no timer, and loading is false
Settled == timer = <<>> /\ ~loading

\* the playback interval is running
PlayingBack == isPlaying /\ debugData # <<>>

\* a step that installs debug data is the callback of the one pending timer, computes
\* with the month and the physics of the render it leaves, and resets currentStep
InstalledByLiveTimer ==
    (debugData' # debugData \/ Len(timer') < Len(timer)) =>
        /\ OneLiveTimer /\ timer # <<>> /\ timer' = <<>>
        /\ debugData' # <<>>
        /\ debugData'[1].callPhys = activePhys /\ debugData'[1].itczLine = itczLines[targetMonth]
        /\ currentStep' = 0

\* C30: a superseded recomputation timer never writes debugData: at most one timer is
\* pending; once none is pending and loading is false, the displayed data was computed
\* from the latest targetMonth and props; currentStep is 0 when the data is installed and
\* never exceeds frames.length - 1 during playback
C30_OnlyLatestTimerWrites ==
    /\ [](/\ OneLiveTimer
          /\ (Settled /\ debugData # <<>>) => DataIsCurrent
          /\ PlayingBack => currentStep <= debugData[1].frames - 1)
    /\ [][InstalledByLiveTimer]_vars

\* C30, for data that has frames: the same, with currentStep within the frames during
\* playback whenever there is a frame
C30_OnlyLatestTimerWritesFramedData ==
    /\ [](/\ OneLiveTimer
          /\ (Settled /\ debugData # <<>>) => DataIsCurrent
          /\ (PlayingBack /\ debugData[1].frames > 0) =>
                 currentStep <= debugData[1].frames - 1)
    /\ [][InstalledByLiveTimer]_vars

\* the month was switched to January while the timer of July was pending or later; the
\* data on display is January's, has two frames, and playback has reached the last one
C30_Witness ==
    /\ Settled /\ debugData # <<>>
    /\ targetMonth = 0 /\ debugData[1].itczLine = itczLines[0]
    /\ debugData[1].itczLine # itczLines[6]
    /\ debugData[1].frames = 2 /\ isPlaying /\ currentStep = 1

\* a computation that pushed no frame is on display and playing: currentStep 0 is past
\* frames.length - 1
C30_EmptyDataPlaying == PlayingBack /\ debugData[1].frames = 0 /\ Settled


====
